---------------------------- MODULE Spec2Model ----------------------------
(***************************************************************************)
(* A model of bitcoin_r1cs: the RefTx circuit, the transaction integrity   *)
(* scheme and gadget, the Bitcoin predicates and their AND / OR            *)
(* combination.                                                            *)
(*                                                                         *)
(* Field elements are little-endian byte strings of the length of the      *)
(* modulus, so that 256-bit values never pass through an integer.  R1CS    *)
(* variables carry their assigned value; a constraint system is the three  *)
(* counters of ark_relations plus the instance assignment and the          *)
(* conjunction of the constraints emitted so far.                          *)
(***************************************************************************)
EXTENDS Integers, Sequences, FiniteSets, TLC

None == [none |-> TRUE]
Some(v) == [none |-> FALSE, some |-> v]
IsSome(o) == ~o.none

Zeros(n) == [i \in 1..n |-> 0]

RECURSIVE Concat(_)
Concat(ss) ==
    IF Len(ss) = 0 THEN <<>>
    ELSE IF Len(ss) = 1 THEN ss[1]
    ELSE Concat(SubSeq(ss, 1, Len(ss) \div 2))
            \o Concat(SubSeq(ss, Len(ss) \div 2 + 1, Len(ss)))

Min(a, b) == IF a < b THEN a ELSE b

(***************************************************************************)
(* The proving fields F.  Fr and Fq of BLS12-381 are the fields the        *)
(* repository's tests instantiate; F64 (2^64 - 2^32 + 1) stands for a      *)
(* field whose modulus is far below the tag's 256 bits.                    *)
(***************************************************************************)
Fr ==
    [name |-> "Fr", MODULUS_BIT_SIZE |-> 255,
     MODULUS |-> <<1, 0, 0, 0, 255, 255, 255, 255, 254, 91, 254, 255, 2, 164,
                   189, 83, 5, 216, 161, 9, 8, 216, 57, 51, 72, 125, 157, 41,
                   83, 167, 237, 115>>]

Fq ==
    [name |-> "Fq", MODULUS_BIT_SIZE |-> 381,
     MODULUS |-> <<171, 170, 255, 255, 255, 255, 254, 185, 255, 255, 83, 177,
                   254, 255, 171, 30, 36, 246, 176, 246, 160, 210, 48, 103,
                   191, 18, 133, 243, 132, 75, 119, 100, 215, 172, 75, 67,
                   182, 167, 27, 75, 154, 230, 127, 57, 234, 17, 1, 26>>]

F64 ==
    [name |-> "F64", MODULUS_BIT_SIZE |-> 64,
     MODULUS |-> <<1, 0, 0, 0, 255, 255, 255, 255>>]

Fields == {Fr, Fq, F64}

\* Number of bytes of a canonical field element: (MODULUS_BIT_SIZE + 7) / 8.
NumModulusBytes(F) == (F.MODULUS_BIT_SIZE + 7) \div 8

(***************************************************************************)
(* Multi-byte arithmetic on little-endian byte strings of equal length.    *)
(***************************************************************************)
\* a >= b: no position where a is smaller with all higher bytes equal.
GeqLE(a, b) ==
    ~\E j \in 1..Len(a) :
        a[j] < b[j] /\ \A k \in (j + 1)..Len(a) : a[k] = b[k]

\* The carry into byte i of a + b: generated at a lower byte and propagated.
AddCarry(a, b, i) ==
    \E j \in 1..(i - 1) :
        a[j] + b[j] >= 256 /\ \A k \in (j + 1)..(i - 1) : a[k] + b[k] = 255

\* a + b without the carry out of the last byte.
AddLE(a, b) ==
    [i \in 1..Len(a) |-> (a[i] + b[i] + (IF AddCarry(a, b, i) THEN 1 ELSE 0)) % 256]

\* The borrow into byte i of a - b.
SubBorrow(a, b, i) ==
    \E j \in 1..(i - 1) :
        a[j] < b[j] /\ \A k \in (j + 1)..(i - 1) : a[k] = b[k]

\* a - b for a >= b.
SubLE(a, b) ==
    [i \in 1..Len(a) |->
        (a[i] - b[i] - (IF SubBorrow(a, b, i) THEN 1 ELSE 0) + 256) % 256]

\* x reduced once: x < 2p on entry, x < p on exit.
ReduceOnce(x, p) == IF GeqLE(x, p) THEN SubLE(x, p) ELSE x

RECURSIVE TimesPow2Mod(_, _, _)
TimesPow2Mod(x, k, p) ==
    IF k = 0 \/ Len(x) # Len(p) THEN x
    ELSE TimesPow2Mod(ReduceOnce(AddLE(x, x), p), k - 1, p)

\* res *= 256; res += byte, in the field of modulus p (one byte wider than p).
MulAddByte(res, byte, p) ==
    ReduceOnce(AddLE(TimesPow2Mod(res, 8, p), <<byte>> \o Zeros(Len(p) - 1)), p)

\* The bytes low[i], low[i - 1], ..., low[first] folded into acc.
RECURSIVE HornerBlock(_, _, _, _, _)
HornerBlock(acc, low, i, first, p) ==
    IF i < first \/ Len(acc) # Len(p) THEN acc
    ELSE HornerBlock(MulAddByte(acc, low[i], p), low, i - 1, first, p)

\* The bytes low[k], ..., low[1] folded into acc, most significant first, four
\* bytes at a time.
RECURSIVE HornerBytes(_, _, _, _)
HornerBytes(acc, low, k, p) ==
    IF k < 1 \/ Len(acc) # Len(p) THEN acc
    ELSE HornerBytes(HornerBlock(acc, low, k, IF k > 4 THEN k - 3 ELSE 1, p),
                     low, k - 4, p)

(***************************************************************************)
(* F::from_le_bytes_mod_order: the most significant num_modulus_bytes - 1  *)
(* bytes are taken as they are, the remaining ones are folded in byte by   *)
(* byte, most significant first.  The result is the canonical element.     *)
(***************************************************************************)
FromLeBytesModOrder(F, bytes) ==
    LET n      == NumModulusBytes(F)
        direct == Min(n - 1, Len(bytes))
        low    == SubSeq(bytes, 1, Len(bytes) - direct)
        high   == SubSeq(bytes, Len(bytes) - direct + 1, Len(bytes))
        p      == F.MODULUS \o <<0>>
        start  == high \o Zeros(n + 1 - direct)
    IN  SubSeq(HornerBytes(start, low, Len(low), p), 1, n)

\* FpVar::to_bytes_le: the canonical little-endian bytes of the element.
ToBytesLe(F, fp) == fp

FieldOfNat(F, k) == FromLeBytesModOrder(F, <<k % 256, (k \div 256) % 256>>)

(***************************************************************************)
(* utils.rs: the chunk size of a field and the chunking of a byte string.  *)
(***************************************************************************)
\* The chunk sizes taken one size down: 16 bytes above 256 bits, and so on.
ChunkSizeOneDown(b) ==
    IF b > 256 THEN 16
    ELSE IF b > 128 THEN 8
    ELSE IF b > 64 THEN 4
    ELSE IF b > 32 THEN 2
    ELSE 1

ChunkSizeOfBits(b) ==
    IF b > 256 THEN 32
    ELSE IF b > 128 THEN 16
    ELSE IF b > 64 THEN 8
    ELSE IF b > 32 THEN 4
    ELSE IF b > 16 THEN 2
    ELSE 1

get_chunk_size(F) == ChunkSizeOfBits(F.MODULUS_BIT_SIZE)

\* data.chunks_exact(n): the whole chunks, a shorter remainder is dropped.
ChunksExact(data, n) ==
    [k \in 1..(Len(data) \div n) |-> SubSeq(data, (k - 1) * n + 1, k * n)]

to_fp_chunks(F, data) ==
    LET chunks == ChunksExact(data, get_chunk_size(F))
    IN  [k \in 1..Len(chunks) |-> FromLeBytesModOrder(F, chunks[k])]

(***************************************************************************)
(* Bitcoin data (chain_gang): transactions, their serialisation, and the   *)
(* signature hash.  Numbers of the model stay below 2^31, so the upper     *)
(* four bytes of a 64-bit little-endian number are zero.                   *)
(***************************************************************************)
TagLen == 32

U32Le(n) ==
    <<n % 256, (n \div 256) % 256, (n \div 65536) % 256, (n \div 16777216) % 256>>

U64Le(n) == U32Le(n) \o <<0, 0, 0, 0>>

\* var_int of a length below 0xfd: one byte.
VarInt(n) == <<n>>

OutPointBytes(o) == o.hash \o U32Le(o.index)

TxOutBytes(o) == U64Le(o.satoshis) \o VarInt(Len(o.lock_script)) \o o.lock_script

(***************************************************************************)
(* SHA-256d.  The stand-in absorbs the preimage byte by byte and spreads   *)
(* the state over 32 bytes; it separates the preimages this model hashes,  *)
(* which is all the code relies on.                                        *)
(***************************************************************************)
RECURSIVE AbsorbBlock(_, _, _, _)
AbsorbBlock(bytes, i, last, acc) ==
    IF i > last THEN acc
    ELSE LET a == (acc * 257 + bytes[i] + 1) % 2097143
         IN  IF a >= 0 THEN AbsorbBlock(bytes, i + 1, last, a) ELSE a

\* The bytes from the 16-byte block b on, absorbed block by block.
RECURSIVE Absorb(_, _, _)
Absorb(bytes, b, acc) ==
    IF 16 * b >= Len(bytes) THEN acc
    ELSE LET a == AbsorbBlock(bytes, 16 * b + 1, Min(16 * b + 16, Len(bytes)), acc)
         IN  IF a >= 0 THEN Absorb(bytes, b + 1, a) ELSE a

\* Every three bytes hold the whole state, so each chunk of a digest does.
Spread(acc) ==
    [i \in 1..TagLen |->
        (CASE i % 3 = 1 -> acc % 256
           [] i % 3 = 2 -> (acc \div 256) % 256
           [] OTHER     -> acc \div 65536) ]

Sha256d(bytes) ==
    LET d == Spread(Absorb(bytes, 0, Len(bytes)))
    IN  [i \in 1..TagLen |-> (d[i] + 37 * (i - 1)) % 256]

HashPrevouts(tx) ==
    Sha256d(Concat([k \in 1..Len(tx.inputs) |-> OutPointBytes(tx.inputs[k].prev_output)]))

HashSequence(tx) ==
    Sha256d(Concat([k \in 1..Len(tx.inputs) |-> U32Le(tx.inputs[k].sequence)]))

HashOutputs(tx) ==
    Sha256d(Concat([k \in 1..Len(tx.outputs) |-> TxOutBytes(tx.outputs[k])]))

\* The sighash flag's parts: base type (flag & 31), ANYONECANPAY (0x80), FORKID (0x40).
BaseType(flag) == flag % 32
AnyoneCanPay(flag) == (flag \div 128) % 2 = 1
ForkId(flag) == (flag \div 64) % 2 = 1

\* Which of the three sub-hashes a flag asks for (otherwise 32 zero bytes).
WantsPrevouts(flag) == ~AnyoneCanPay(flag)
WantsSequence(flag) == ~AnyoneCanPay(flag) /\ BaseType(flag) \notin {2, 3}
WantsOutputs(flag) == BaseType(flag) \notin {2, 3}

\* The preimage without the amount of the output being spent.
PreimageWithoutAmount(tx, n_input, script_code, satoshis, flag, hp, hs, ho) ==
    U32Le(tx.version) \o hp \o hs
    \o OutPointBytes(tx.inputs[n_input + 1].prev_output)
    \o VarInt(Len(script_code)) \o script_code
    \o U32Le(tx.inputs[n_input + 1].sequence)
    \o ho \o U32Le(tx.lock_time) \o U32Le(flag)

\* The BIP-143 preimage, given the three sub-hashes that go into it.
Preimage(tx, n_input, script_code, satoshis, flag, hp, hs, ho) ==
    U32Le(tx.version) \o hp \o hs
    \o OutPointBytes(tx.inputs[n_input + 1].prev_output)
    \o VarInt(Len(script_code)) \o script_code
    \o U64Le(satoshis)
    \o U32Le(tx.inputs[n_input + 1].sequence)
    \o ho \o U32Le(tx.lock_time) \o U32Le(flag)

\* hash_outputs when the flag does not ask for the hash of all outputs.
OtherOutputsHash(tx, n_input, flag) ==
    IF BaseType(flag) = 3 /\ n_input < Len(tx.outputs)
    THEN Sha256d(TxOutBytes(tx.outputs[n_input + 1]))
    ELSE Zeros(TagLen)

EmptyCache == [hash_prevouts |-> None, hash_sequence |-> None, hash_outputs |-> None]

\* A sub-hash through the cache: computed and stored when absent, reused when present.
Cached(slot, fresh) == IF IsSome(slot) THEN slot ELSE Some(fresh)

\* The digest of the preimage built from the sub-hashes the cache now holds.
SighashOf(tx, n_input, script_code, satoshis, flag, filled) ==
    [ok |-> TRUE,
     hash |-> Sha256d(Preimage(tx, n_input, script_code, satoshis, flag,
                  IF WantsPrevouts(flag) THEN filled.hash_prevouts.some ELSE Zeros(TagLen),
                  IF WantsSequence(flag) THEN filled.hash_sequence.some ELSE Zeros(TagLen),
                  IF WantsOutputs(flag) THEN filled.hash_outputs.some
                  ELSE OtherOutputsHash(tx, n_input, flag))),
     cache |-> filled]

(***************************************************************************)
(* chain_gang's sighash for a flag with SIGHASH_FORKID, as commit calls    *)
(* it: Err for an input index out of range, else the digest and the cache  *)
(* as the call leaves it.                                                  *)
(***************************************************************************)
sighash(tx, n_input, script_code, satoshis, flag, cache) ==
    IF n_input >= Len(tx.inputs)
    THEN [ok |-> FALSE, hash |-> Zeros(TagLen), cache |-> cache]
    ELSE SighashOf(tx, n_input, script_code, satoshis, flag,
             [hash_prevouts |-> IF WantsPrevouts(flag)
                                THEN Cached(cache.hash_prevouts, HashPrevouts(tx))
                                ELSE cache.hash_prevouts,
              hash_sequence |-> IF WantsSequence(flag)
                                THEN Cached(cache.hash_sequence, HashSequence(tx))
                                ELSE cache.hash_sequence,
              hash_outputs  |-> IF WantsOutputs(flag)
                                THEN Cached(cache.hash_outputs, HashOutputs(tx))
                                ELSE cache.hash_outputs])

(***************************************************************************)
(* TransactionIntegrityScheme (native): commit and verify.                 *)
(***************************************************************************)
\* .unwrap() of the sighash result: the tag is the digest.
TagOfSighash(r, sighash_cache) ==
    IF r.ok THEN [status |-> "ok", tag |-> r.hash, cache |-> r.cache]
    ELSE [status |-> "panic", tag |-> Zeros(TagLen), cache |-> sighash_cache]

commit(P, tx, prev_lock_script, prev_amount, sighash_cache) ==
    IF Len(prev_lock_script) # P.LEN_PREV_LOCK_SCRIPT
    THEN [status |-> "panic", tag |-> Zeros(TagLen), cache |-> sighash_cache]
    ELSE TagOfSighash(sighash(tx, P.N_INPUT, prev_lock_script, prev_amount,
                              P.SIGHASH_FLAG, sighash_cache), sighash_cache)

\* TransactionIntegrityTag::default(): 32 zero bytes.
DefaultTag == Zeros(TagLen)

\* impl From<TransactionIntegrityTag> for Vec<F>
TagToFieldVec(F, tag) == <<FromLeBytesModOrder(F, tag)>>

(***************************************************************************)
(* The constraint system (ark_relations) and the variables of ark_r1cs_std *)
(* the repository allocates.  Every allocated Boolean costs one variable   *)
(* and its booleanity constraint; a constant costs nothing.                *)
(***************************************************************************)
NewCs ==
    [num_instance_variables |-> 0, num_witness_variables |-> 0,
     num_constraints |-> 0, instance |-> <<>>, satisfied |-> TRUE]

\* k Boolean variables with the values `bits`, allocated in `mode`.  The instance
\* assignment holds each public variable's value as little-endian bytes: one byte
\* for a Boolean, the canonical bytes for a field element.
AllocBits(cs, bits, mode) ==
    CASE mode = "Input" ->
            [cs EXCEPT !.num_instance_variables = @ + Len(bits),
                       !.num_constraints = @ + Len(bits),
                       !.instance = @ \o [k \in 1..Len(bits) |-> <<bits[k]>>]]
      [] mode = "Witness" ->
            [cs EXCEPT !.num_witness_variables = @ + Len(bits),
                       !.num_constraints = @ + Len(bits)]
      [] OTHER -> cs

\* FpVar::new_variable of each element of `elems`, in order.
AllocFps(cs, elems, mode) ==
    CASE mode = "Input" ->
            [cs EXCEPT !.num_instance_variables = @ + Len(elems),
                       !.instance = @ \o elems]
      [] mode = "Witness" ->
            [cs EXCEPT !.num_witness_variables = @ + Len(elems)]
      [] OTHER -> cs

BitsOfByte(b) == [k \in 1..8 |-> (b \div (2 ^ (k - 1))) % 2]

\* UInt8::new_variable of each byte: eight Booleans per byte, least significant first.
AllocBytes(cs, bytes, mode) ==
    AllocBits(cs, Concat([k \in 1..Len(bytes) |-> BitsOfByte(bytes[k])]), mode)

\* An in-circuit Boolean: a constant, or a variable with its assigned value.
BoolConst(b) == [const |-> TRUE, val |-> b]
BoolVar(b) == [const |-> FALSE, val |-> b]

\* Boolean & Boolean and Boolean | Boolean: a constant operand costs nothing.
BoolAnd(acc, b) ==
    IF acc.bool.const /\ ~acc.bool.val THEN acc
    ELSE IF acc.bool.const THEN [acc EXCEPT !.bool = b]
    ELSE IF b.const /\ b.val THEN acc
    ELSE IF b.const THEN [acc EXCEPT !.bool = b]
    ELSE [cs |-> [acc.cs EXCEPT !.num_witness_variables = @ + 1,
                                !.num_constraints = @ + 1],
          bool |-> BoolVar(acc.bool.val /\ b.val)]

BoolOr(acc, b) ==
    IF acc.bool.const /\ acc.bool.val THEN acc
    ELSE IF acc.bool.const THEN [acc EXCEPT !.bool = b]
    ELSE IF b.const /\ ~b.val THEN acc
    ELSE IF b.const THEN [acc EXCEPT !.bool = b]
    ELSE [cs |-> [acc.cs EXCEPT !.num_witness_variables = @ + 1,
                                !.num_constraints = @ + 1],
          bool |-> BoolVar(acc.bool.val \/ b.val)]

RECURSIVE FoldBools(_, _, _, _)
FoldBools(is_and, acc, bits, k) ==
    IF k > Len(bits) \/ acc.bool.const \notin BOOLEAN THEN acc
    ELSE FoldBools(is_and,
                   IF is_and THEN BoolAnd(acc, bits[k]) ELSE BoolOr(acc, bits[k]),
                   bits, k + 1)

\* A Boolean returned with Ok.
OkBool(r) == [status |-> "ok", cause |-> "", cs |-> r.cs, bool |-> r.bool]

\* A conjunction that looks at its first operand only.
kary_and_first_only(cs, bits) ==
    IF bits = <<>>
    THEN [status |-> "panic", cause |-> "kary_empty", cs |-> cs, bool |-> BoolConst(TRUE)]
    ELSE OkBool([cs |-> cs, bool |-> bits[1]])

\* Boolean::kary_and / kary_or: asserts that there is a bit, then folds from the left.
kary_and(cs, bits) ==
    IF bits = <<>>
    THEN [status |-> "panic", cause |-> "kary_empty", cs |-> cs, bool |-> BoolConst(TRUE)]
    ELSE OkBool(FoldBools(TRUE, [cs |-> cs, bool |-> bits[1]], bits, 2))

\* A disjunction that looks at its last operand only.
kary_or_last_only(cs, bits) ==
    IF bits = <<>>
    THEN [status |-> "panic", cause |-> "kary_empty", cs |-> cs, bool |-> BoolConst(FALSE)]
    ELSE OkBool([cs |-> cs, bool |-> bits[Len(bits)]])

kary_or(cs, bits) ==
    IF bits = <<>>
    THEN [status |-> "panic", cause |-> "kary_empty", cs |-> cs, bool |-> BoolConst(FALSE)]
    ELSE OkBool(FoldBools(FALSE, [cs |-> cs, bool |-> bits[1]], bits, 2))

\* A comparison that emits its constraints only when the byte strings are equal.
BytesIsEqWhenEqual(cs, a, b) ==
    IF Len(a) # Len(b)
    THEN [status |-> "panic", cause |-> "is_eq_len", cs |-> cs, bool |-> BoolConst(FALSE)]
    ELSE IF a # b
    THEN [status |-> "ok", cause |-> "", cs |-> cs, bool |-> BoolVar(FALSE)]
    ELSE kary_and([cs EXCEPT !.num_witness_variables = @ + 2 * Len(a),
                             !.num_constraints = @ + 2 * Len(a)],
                  [k \in 1..Len(a) |-> BoolVar(TRUE)])

(***************************************************************************)
(* [UInt8]::is_eq of an allocated byte string with another byte string:    *)
(* the lengths are asserted equal, two empty strings are the constant      *)
(* TRUE, otherwise each pair of bytes is compared (a Boolean variable     *)
(* each) and the results are conjoined.                                    *)
(***************************************************************************)
BytesIsEq(cs, a, b) ==
    IF Len(a) # Len(b)
    THEN [status |-> "panic", cause |-> "is_eq_len", cs |-> cs, bool |-> BoolConst(FALSE)]
    ELSE IF Len(a) = 0
    THEN [status |-> "ok", cause |-> "", cs |-> cs, bool |-> BoolConst(TRUE)]
    ELSE kary_and([cs EXCEPT !.num_witness_variables = @ + 2 * Len(a),
                             !.num_constraints = @ + 2 * Len(a)],
                  [k \in 1..Len(a) |-> BoolVar(a[k] = b[k])])

\* Boolean::enforce_equal(&Boolean::TRUE)
\* enforce_equal that fails when the Boolean is false on the witness.
EnforceTrueOrFail(cs, bool) ==
    IF ~bool.val THEN [status |-> "error", cs |-> cs]
    ELSE IF bool.const THEN [status |-> "ok", cs |-> cs]
    ELSE [status |-> "ok", cs |-> [cs EXCEPT !.num_constraints = @ + 1]]

EnforceTrue(cs, bool) ==
    IF bool.const
    THEN [status |-> IF bool.val THEN "ok" ELSE "error", cs |-> cs]
    ELSE [status |-> "ok",
          cs |-> [cs EXCEPT !.num_constraints = @ + 1,
                            !.satisfied = @ /\ bool.val]]

(***************************************************************************)
(* bitcoin_predicates/data_structures and the combined data of macros.rs:  *)
(* the locking / unlocking / witness data of a predicate, its conversion   *)
(* to field elements and its allocation.                                   *)
(***************************************************************************)
BitcoinUnit == [kind |-> "unit"]
FieldArray(elements) == [kind |-> "field_array", elements |-> elements]
ByteArray(bytes) == [kind |-> "byte_array", bytes |-> bytes]
CombinedData(slots) == [kind |-> "combined", slots |-> slots]

\* The conversion with the slots of a combined aggregate taken last to first.
RECURSIVE DataToVecLastFirst(_, _)
DataToVecLastFirst(F, d) ==
    CASE d.kind = "unit" -> <<>>
      [] d.kind = "field_array" ->
            [k \in 1..Len(d.elements) |-> FieldOfNat(F, d.elements[k])]
      [] d.kind = "byte_array" ->
            [k \in 1..Len(d.bytes) |-> FromLeBytesModOrder(F, <<d.bytes[k]>>)]
      [] OTHER ->
            Concat([k \in 1..Len(d.slots) |->
                       DataToVecLastFirst(F, d.slots[Len(d.slots) + 1 - k])])

\* impl From<...> for Vec<F>; elements of a FieldArray are given by their small value.
RECURSIVE DataToVec(_, _)
DataToVec(F, d) ==
    CASE d.kind = "unit" -> <<>>
      [] d.kind = "field_array" ->
            [k \in 1..Len(d.elements) |-> FieldOfNat(F, d.elements[k])]
      [] d.kind = "byte_array" ->
            [k \in 1..Len(d.bytes) |-> FromLeBytesModOrder(F, <<d.bytes[k]>>)]
      [] OTHER ->
            Concat([k \in 1..Len(d.slots) |-> DataToVec(F, d.slots[k])])

\* AllocVar::new_variable of the data; a combined variable allocates its slots in order.
RECURSIVE AllocData(_, _, _, _)
AllocData(F, cs, d, mode) ==
    CASE d.kind = "unit" -> cs
      [] d.kind = "field_array" ->
            AllocFps(cs, [k \in 1..Len(d.elements) |-> FieldOfNat(F, d.elements[k])], mode)
      [] d.kind = "byte_array" -> AllocBytes(cs, d.bytes, mode)
      [] OTHER ->
            IF d.slots = <<>> THEN cs
            ELSE LET first == AllocData(F, cs, Head(d.slots), mode)
                 IN  IF first.satisfied \in BOOLEAN
                     THEN AllocData(F, first, CombinedData(Tail(d.slots)), mode)
                     ELSE first

(***************************************************************************)
(* Variables of constraints/ (tx.rs, script.rs): a transaction variable    *)
(* allocates every byte of the transaction's fields, a script variable     *)
(* every byte of the script.                                               *)
(***************************************************************************)
TxFieldBytes(tx) ==
    U32Le(tx.version)
    \o Concat([k \in 1..Len(tx.inputs) |->
                  OutPointBytes(tx.inputs[k].prev_output)
                  \o tx.inputs[k].unlock_script \o U32Le(tx.inputs[k].sequence)])
    \o Concat([k \in 1..Len(tx.outputs) |->
                  U64Le(tx.outputs[k].satoshis) \o tx.outputs[k].lock_script])
    \o U32Le(tx.lock_time)

AllocTx(cs, tx, mode) == AllocBytes(cs, TxFieldBytes(tx), mode)

\* SigHashCacheVar::new_variable: a DigestVar for each sub-hash the native cache holds.
AllocCache(cs, cache, mode) ==
    LET held == Concat(<<IF IsSome(cache.hash_prevouts) THEN cache.hash_prevouts.some ELSE <<>>,
                         IF IsSome(cache.hash_sequence) THEN cache.hash_sequence.some ELSE <<>>,
                         IF IsSome(cache.hash_outputs) THEN cache.hash_outputs.some ELSE <<>> >>)
    IN  AllocBytes(cs, held, mode)

\* TransactionIntegrityTagVar::new_variable: one FpVar per chunk of the tag.
AllocTag(F, cs, tag, mode) ==
    [cs |-> AllocFps(cs, to_fp_chunks(F, tag), mode),
     var |-> [inner |-> to_fp_chunks(F, tag)]]

\* Constraints of a SHA-256d over n bytes: the compressions of both passes.
ShaCompressions(n) == (n + 9 + 63) \div 64 + 1

Sha256dGadget(cs, n) ==
    [cs EXCEPT !.num_witness_variables = @ + 25000 * ShaCompressions(n),
               !.num_constraints = @ + 25000 * ShaCompressions(n)]

\* A sub-hash through the cache variable: the SHA gadget runs only when the slot is empty.
CachedGadget(cs, slot, wanted, n) ==
    IF wanted /\ ~IsSome(slot) THEN Sha256dGadget(cs, n) ELSE cs

(***************************************************************************)
(* TxVar::sighash: the digest of the allocated transaction for one input,  *)
(* through the cache variable.                                             *)
(***************************************************************************)
TxVarSighashOf(r, cs) ==
    [status |-> "ok", cause |-> "", cs |-> cs, digest |-> r.hash, cache |-> r.cache]

TxVarSighash(cs, tx, n_input, prev_lock_script, prev_amount, flag, cache) ==
    IF n_input >= Len(tx.inputs)
    THEN [status |-> "panic", cause |-> "index", cs |-> cs,
          digest |-> Zeros(TagLen), cache |-> cache]
    ELSE LET cs1 == CachedGadget(cs, cache.hash_prevouts, WantsPrevouts(flag),
                                 36 * Len(tx.inputs))
             cs2 == CachedGadget(cs1, cache.hash_sequence, WantsSequence(flag),
                                 4 * Len(tx.inputs))
             cs3 == CachedGadget(cs2, cache.hash_outputs, WantsOutputs(flag),
                                 Len(Concat([k \in 1..Len(tx.outputs) |->
                                                TxOutBytes(tx.outputs[k])])))
             n   == 4 + 32 + 32 + 36 + 1 + Len(prev_lock_script) + 8 + 4 + 32 + 4 + 4
         IN  TxVarSighashOf(sighash(tx, n_input, prev_lock_script, prev_amount, flag,
                                    cache),
                            Sha256dGadget(cs3, n))

(***************************************************************************)
(* TransactionIntegrityTagVar::to_bytes and TransactionIntegrityGadget::   *)
(* verify (transaction_integrity_gadget/constraints.rs).                   *)
(***************************************************************************)
\* The bytes of each element of the tag, not cut to the chunk size.
TagVarToBytesUncut(F, cs, tag) ==
    [cs |-> [cs EXCEPT !.num_witness_variables = @ + F.MODULUS_BIT_SIZE * Len(tag.inner),
                       !.num_constraints = @ + (F.MODULUS_BIT_SIZE + 1) * Len(tag.inner)],
     bytes |-> [k \in 1..Len(tag.inner) |-> ToBytesLe(F, tag.inner[k])]]

\* fp.to_bytes_le()?[..chunk_size] of each element; the bits of each are allocated.
TagVarToBytes(F, cs, tag) ==
    [cs |-> [cs EXCEPT !.num_witness_variables = @ + F.MODULUS_BIT_SIZE * Len(tag.inner),
                       !.num_constraints = @ + (F.MODULUS_BIT_SIZE + 1) * Len(tag.inner)],
     bytes |-> [k \in 1..Len(tag.inner) |->
                   SubSeq(ToBytesLe(F, tag.inner[k]), 1, get_chunk_size(F))]]

\* The chunk comparisons of the zip, left to right.
RECURSIVE CompareChunks(_, _, _, _, _)
RECURSIVE ComparedChunk(_, _, _, _, _)

\* A comparison of the first chunk only.
CompareFirstChunk(cs, public, computed, k, bools) ==
    IF public = <<>> \/ computed = <<>>
    THEN [status |-> "ok", cause |-> "", cs |-> cs, bools |-> bools]
    ELSE [status |-> "ok", cause |-> "", cs |-> cs,
          bools |-> <<BoolVar(public[1] = computed[1])>>]

CompareChunks(cs, public, computed, k, bools) ==
    IF k > Min(Len(public), Len(computed))
    THEN [status |-> "ok", cause |-> "", cs |-> cs, bools |-> bools]
    ELSE ComparedChunk(BytesIsEq(cs, public[k], computed[k]), public, computed, k, bools)

\* The ? on the comparison e of chunk k, then the following chunks.
ComparedChunk(e, public, computed, k, bools) ==
    IF e.status # "ok"
    THEN [status |-> e.status, cause |-> e.cause, cs |-> e.cs, bools |-> bools]
    ELSE CompareChunks(e.cs, public, computed, k + 1, Append(bools, e.bool))

\* What verify returns: how it ended, the system, the cache and digest of the
\* sighash call, and the number of digest bytes the comparison covered.
VerifyResult(status, cause, cs, sh, compared) ==
    [status |-> status, cause |-> cause, cs |-> cs, cache |-> sh.cache,
     digest |-> sh.digest, compared |-> compared]

\* is_tag_valid.enforce_equal(&Boolean::TRUE) on the AND of the comparisons.
VerifyEnforce(F, sh, cmp, all) ==
    IF all.status # "ok" THEN VerifyResult(all.status, all.cause, all.cs, sh, 0)
    ELSE VerifyResult("ok", "", EnforceTrue(all.cs, all.bool).cs, sh,
                      Len(cmp.bools) * get_chunk_size(F))

\* Boolean::kary_and of the chunk comparisons.
VerifyAll(F, sh, cmp) ==
    IF cmp.status # "ok" THEN VerifyResult(cmp.status, cmp.cause, cmp.cs, sh, 0)
    ELSE VerifyEnforce(F, sh, cmp, kary_and(cmp.cs, cmp.bools))

\* The zip of the tag's bytes with the chunks of the computed digest.
VerifyChunks(F, sh, pub) ==
    VerifyAll(F, sh, CompareChunks(pub.cs, pub.bytes,
                                   ChunksExact(sh.digest, get_chunk_size(F)), 1, <<>>))

VerifyDigest(F, sh, tag) ==
    IF sh.status # "ok" THEN VerifyResult(sh.status, sh.cause, sh.cs, sh, 0)
    ELSE VerifyChunks(F, sh, TagVarToBytes(F, sh.cs, tag))

verify(F, P, cs, tx, prev_lock_script, prev_amount, sighash_cache, tag) ==
    IF Len(prev_lock_script) # P.LEN_PREV_LOCK_SCRIPT
    THEN [status |-> "panic", cause |-> "validation", cs |-> cs,
          cache |-> sighash_cache, digest |-> Zeros(TagLen), compared |-> 0]
    ELSE VerifyDigest(F, TxVarSighash(cs, tx, P.N_INPUT, prev_lock_script, prev_amount,
                                      P.SIGHASH_FLAG, sighash_cache), tag)

(***************************************************************************)
(* The predicates: FixedLockScript, FixedSubLockScript and the AND / OR    *)
(* combination of macros.rs.  generate_constraints returns the status      *)
(* (ok, or the panic / error that ended it), the constraint system, the    *)
(* Boolean and the log of the predicates whose generate_constraints ran.   *)
(***************************************************************************)
FixedLockScript(name, lock_script, index) ==
    [kind |-> "FixedLockScript", name |-> name, lock_script |-> lock_script,
     index |-> index]

FixedSubLockScript(name, lock_script, index, start, end) ==
    [kind |-> "FixedSubLockScript", name |-> name, lock_script |-> lock_script,
     index |-> index, start |-> start, end |-> end]

\* and_combine_predicates! (is_and) / or_combine_predicates! of the listed predicates.
\* An implementation of BitcoinPredicate whose generate_constraints returns Err.
FailingPredicate(name) == [kind |-> "Failing", name |-> name]

CombinePredicates(name, is_and, subs) ==
    [kind |-> "Combined", name |-> name, is_and |-> is_and, subs |-> subs]

Stopped(status, cause, cs, log) ==
    [status |-> status, cause |-> cause, cs |-> cs, bool |-> BoolConst(FALSE), log |-> log]

\* The Boolean e a predicate returns, with the log of the predicates that ran.
Returned(e, log) ==
    [status |-> e.status, cause |-> e.cause, cs |-> e.cs, bool |-> e.bool, log |-> log]

FixedLockScriptGen(pred, cs, tx, log) ==
    IF ~(pred.index <= Len(tx.outputs))
    THEN Stopped("panic", "validation", cs, log)
    ELSE IF pred.index >= Len(tx.outputs)
    THEN Stopped("panic", "index", cs, log)
    ELSE Returned(BytesIsEq(cs, tx.outputs[pred.index + 1].lock_script,
                            pred.lock_script), log)

\* The comparison made on the first end - start bytes of the script.
FixedSubLockScriptGenFromZero(pred, cs, tx, log) ==
    IF ~(pred.index <= Len(tx.outputs))
    THEN Stopped("panic", "validation", cs, log)
    ELSE IF pred.index >= Len(tx.outputs)
    THEN Stopped("panic", "index", cs, log)
    ELSE IF ~(pred.end <= Len(tx.outputs[pred.index + 1].lock_script))
    THEN Stopped("panic", "validation", cs, log)
    ELSE IF pred.start > pred.end
    THEN Stopped("panic", "slice", cs, log)
    ELSE Returned(BytesIsEq(cs, SubSeq(tx.outputs[pred.index + 1].lock_script,
                                       1, pred.end - pred.start),
                            pred.lock_script), log)

FixedSubLockScriptGen(pred, cs, tx, log) ==
    IF ~(pred.index <= Len(tx.outputs))
    THEN Stopped("panic", "validation", cs, log)
    ELSE IF pred.index >= Len(tx.outputs)
    THEN Stopped("panic", "index", cs, log)
    ELSE IF ~(pred.end <= Len(tx.outputs[pred.index + 1].lock_script))
    THEN Stopped("panic", "validation", cs, log)
    ELSE IF pred.start > pred.end
    THEN Stopped("panic", "slice", cs, log)
    ELSE Returned(BytesIsEq(cs, SubSeq(tx.outputs[pred.index + 1].lock_script,
                                       pred.start + 1, pred.end),
                            pred.lock_script), log)

RECURSIVE generate_constraints(_, _, _, _)
RECURSIVE GenerateSubs(_, _, _, _, _, _)
RECURSIVE GeneratedSub(_, _, _, _, _)

\* The elements of the array handed to kary_and / kary_or, evaluated in order.
GenerateSubs(subs, k, cs, tx, log, bools) ==
    IF k > Len(subs)
    THEN [status |-> "ok", cause |-> "", cs |-> cs, bools |-> bools, log |-> log]
    ELSE GeneratedSub(generate_constraints(subs[k], cs, tx, log), subs, k, tx, bools)

\* A combination that stops at the first sub-predicate returning false.
GeneratedSubShortCircuit(r, subs, k, tx, bools) ==
    IF r.status # "ok"
    THEN [status |-> r.status, cause |-> r.cause, cs |-> r.cs, bools |-> bools,
          log |-> r.log]
    ELSE GenerateSubs(subs, IF r.bool.val THEN k + 1 ELSE Len(subs) + 1, r.cs, tx,
                      r.log, Append(bools, r.bool))

\* The ? on the result r of sub-predicate k, then the following sub-predicates.
GeneratedSub(r, subs, k, tx, bools) ==
    IF r.status # "ok"
    THEN [status |-> r.status, cause |-> r.cause, cs |-> r.cs, bools |-> bools,
          log |-> r.log]
    ELSE GenerateSubs(subs, k + 1, r.cs, tx, r.log, Append(bools, r.bool))

\* kary_and / kary_or of the Booleans g of the sub-predicates.
CombineBools(pred, g) ==
    IF g.status # "ok" THEN Stopped(g.status, g.cause, g.cs, g.log)
    ELSE Returned(IF pred.is_and THEN kary_and(g.cs, g.bools)
                  ELSE kary_or(g.cs, g.bools), g.log)

CombinedGen(pred, cs, tx, log) ==
    CombineBools(pred, GenerateSubs(pred.subs, 1, cs, tx, log, <<>>))

generate_constraints(pred, cs, tx, log) ==
    CASE pred.kind = "FixedLockScript" ->
            FixedLockScriptGen(pred, cs, tx, Append(log, pred.name))
      [] pred.kind = "FixedSubLockScript" ->
            FixedSubLockScriptGen(pred, cs, tx, Append(log, pred.name))
      [] pred.kind = "Failing" ->
            Stopped("error", "synthesis", cs, Append(log, pred.name))
      [] OTHER -> CombinedGen(pred, cs, tx, Append(log, pred.name))

\* .enforce_equal(&Boolean::TRUE) on the Boolean r of generate_constraints(...)?
\* The generated Boolean returned as it is, nothing enforced.
EnforceGeneratedUnenforced(r, e) == r

EnforceGenerated(r, e) ==
    IF r.status # "ok" THEN r
    ELSE [status |-> e.status, cause |-> "", cs |-> e.cs, bool |-> r.bool,
          log |-> r.log]

\* BitcoinPredicate::enforce_constraints (traits.rs)
enforce_constraints(pred, cs, tx, log) ==
    LET r == generate_constraints(pred, cs, tx, log)
    IN  EnforceGenerated(r, EnforceTrue(r.cs, r.bool))

\* The data of a predicate with no data of its own: a unit, or a unit per slot.
RECURSIVE UnitDataOf(_)
UnitDataOf(pred) ==
    IF pred.kind = "Combined"
    THEN CombinedData([k \in 1..Len(pred.subs) |-> UnitDataOf(pred.subs[k])])
    ELSE BitcoinUnit

(***************************************************************************)
(* The instances the model runs: one transaction shape, the transactions   *)
(* of that shape that differ in one output's locking script, and the       *)
(* values a prover can put into each field of a RefTxCircuit.              *)
(***************************************************************************)
NumAmounts == 2

Config ==
    [N_INPUTS |-> 1, N_OUTPUTS |-> 2, LEN_UNLOCK_SCRIPTS |-> <<0>>,
     LEN_LOCK_SCRIPTS |-> <<3, 2>>, N_INPUT |-> 0, LEN_PREV_LOCK_SCRIPT |-> 2,
     SIGHASH_FLAG |-> 65]

\* util::default_tx::<P>(): the zero transaction of the configured shape.
default_tx(P) ==
    [version |-> 0,
     inputs |-> [k \in 1..P.N_INPUTS |->
                    [prev_output |-> [hash |-> Zeros(TagLen), index |-> 0],
                     unlock_script |-> Zeros(P.LEN_UNLOCK_SCRIPTS[k]),
                     sequence |-> 0]],
     outputs |-> [k \in 1..P.N_OUTPUTS |->
                     [satoshis |-> 0, lock_script |-> Zeros(P.LEN_LOCK_SCRIPTS[k])]],
     lock_time |-> 0]

MkTx(lock0, lock1) ==
    [version |-> 2,
     inputs |-> <<[prev_output |-> [hash |-> [i \in 1..TagLen |-> 7 * i], index |-> 0],
                   unlock_script |-> <<>>, sequence |-> 0]>>,
     outputs |-> <<[satoshis |-> 100, lock_script |-> lock0],
                   [satoshis |-> 259899900, lock_script |-> lock1]>>,
     lock_time |-> 0]

ScriptA == <<118, 169, 20>>
ScriptB == <<118, 169, 21>>
ScriptC == <<136, 172>>
ScriptD == <<169, 20>>

TxA == MkTx(ScriptA, ScriptC)
TxB == MkTx(ScriptB, ScriptC)
TxC == MkTx(ScriptA, ScriptD)
TxSet == {TxA, TxB, TxC}

PrevLockScript == <<118, 172>>
PrevAmounts == {260000 + k : k \in 0..(NumAmounts - 1)}

\* The cache as a native commit on tx leaves it.
CacheAfter(tx) ==
    commit(Config, tx, PrevLockScript, 260000, EmptyCache).cache

CacheSet == {EmptyCache} \cup {CacheAfter(tx) : tx \in {TxA, TxB}}

FlipBit(tag, i) == [tag EXCEPT ![i] = IF @ % 2 = 0 THEN @ + 1 ELSE @ - 1]

TagOf(tx, amount) == commit(Config, tx, PrevLockScript, amount, EmptyCache).tag

TagSet ==
    {TagOf(TxA, a) : a \in PrevAmounts}
    \cup {TagOf(TxB, 260000)}
    \cup {FlipBit(TagOf(TxA, 260000), i) : i \in {1, TagLen}}

LockA == FixedLockScript("fixed_lock_script_1", ScriptA, 0)
LockC == FixedLockScript("fixed_lock_script_2", ScriptC, 1)
LockB == FixedLockScript("fixed_lock_script_3", ScriptB, 0)
SubLockA == FixedSubLockScript("fixed_sub_lock_script_1", <<118, 169>>, 0, 0, 2)

\* A predicate with the locking and unlocking data it is instantiated with.
PredicateSet ==
    {[predicate |-> q, locking_data |-> UnitDataOf(q), unlocking_data |-> UnitDataOf(q)] :
        q \in {LockA, LockB, SubLockA,
               CombinePredicates("and", TRUE, <<LockA, LockC>>),
               CombinePredicates("or", FALSE, <<LockA, LockB>>)}}
    \cup {[predicate |-> LockA, locking_data |-> FieldArray(<<5>>),
           unlocking_data |-> ByteArray(<<7>>)],
          [predicate |-> CombinePredicates("and", TRUE, <<LockA, LockC>>),
           locking_data |-> CombinedData(<<FieldArray(<<5, 6>>), BitcoinUnit>>),
           unlocking_data |-> CombinedData(<<BitcoinUnit, ByteArray(<<7>>)>>)],
          [predicate |-> CombinePredicates("or", FALSE, <<LockA, LockC>>),
           locking_data |-> CombinedData(<<FieldArray(<<5, 6>>), ByteArray(<<7>>)>>),
           unlocking_data |-> CombinedData(<<ByteArray(<<8, 9>>), FieldArray(<<3>>)>>)]}

OptionOf(S) == {None} \cup {Some(v) : v \in S}

\* The previous output a prover supplies: nothing, or its locking script and amount.
PrevOutputs ==
    {[prev_lock_script |-> None, prev_amount |-> None]}
    \cup {[prev_lock_script |-> Some(PrevLockScript), prev_amount |-> Some(a)] :
             a \in PrevAmounts}

RefTxCircuit(b, t, x, o, c) ==
    [predicate |-> b.predicate, locking_data |-> b.locking_data,
     integrity_tag |-> t, unlocking_data |-> b.unlocking_data,
     witness |-> UnitDataOf(b.predicate), spending_data |-> x,
     prev_lock_script |-> o.prev_lock_script, prev_amount |-> o.prev_amount,
     sighash_cache |-> c]

\* The circuits explored: every tag, transaction, previous output and cache under
\* the predicates on output 0, and every predicate over every transaction.
Circuits ==
    {RefTxCircuit(b, t, x, o, c) :
        b \in {q \in PredicateSet : q.predicate = LockA},
        t \in OptionOf(TagSet), x \in OptionOf(TxSet),
        o \in PrevOutputs, c \in OptionOf(CacheSet)}
    \cup
    {RefTxCircuit(b, t, x,
                  [prev_lock_script |-> Some(PrevLockScript), prev_amount |-> Some(260000)],
                  None) :
        b \in PredicateSet, t \in {None, Some(TagOf(TxA, 260000))},
        x \in OptionOf(TxSet)}

UnwrapOr(o, d) == IF IsSome(o) THEN o.some ELSE d

(***************************************************************************)
(* RefTxCircuit::public_input (reftx.rs)                                   *)
(***************************************************************************)
public_input_of(F, c) ==
    DataToVec(F, c.locking_data)
    \o TagToFieldVec(F, UnwrapOr(c.integrity_tag, DefaultTag))
    \o DataToVec(F, c.unlocking_data)

(***************************************************************************)
(* The state: the field and configuration the circuit is instantiated      *)
(* with, the circuit, the position in generate_constraints, the constraint *)
(* system, the variables allocated so far, and what the run returned.      *)
(***************************************************************************)
VARIABLES
    F,             \* the proving field
    P,             \* the transaction shape and integrity configuration
    circuit,       \* the RefTxCircuit instance
    pc,            \* the next step of the operation in progress
    cs,            \* the constraint system
    alloc,         \* the allocated variables, None until allocated
    log,           \* the allocations and gadget calls made, in order
    pred_log,      \* the predicates whose generate_constraints ran, in order
    public_input,  \* what public_input() returned, None until called
    digest,        \* the digest the integrity gadget computed
    result,        \* the Boolean generate_constraints returned
    status,        \* "running", "ok", "panic" or "error"
    cause          \* what a panic was raised by

vars ==
    <<F, P, circuit, pc, cs, alloc, log, pred_log, public_input, digest, result,
      status, cause>>

NoAlloc ==
    [integrity_tag |-> None, spending_data |-> None, prev_lock_script |-> None,
     prev_amount |-> None, sighash_cache |-> None]

Fresh ==
    /\ pc = "init"
    /\ cs = NewCs
    /\ alloc = NoAlloc
    /\ log = <<>>
    /\ pred_log = <<>>
    /\ public_input = None
    /\ digest = None
    /\ result = None
    /\ status = "running"
    /\ cause = ""

Init ==
    /\ F \in Fields
    /\ P = Config
    /\ circuit \in Circuits
    /\ Fresh

Logged(step, mode, c) ==
    Append(log, [step |-> step, mode |-> mode,
                 num_instance_variables |-> c.num_instance_variables,
                 num_witness_variables |-> c.num_witness_variables])

\* A step of generate_constraints that allocates: the system, the variable, the next step.
Allocate(step, mode, c, field, var, next) ==
    /\ cs' = c
    /\ alloc' = IF field = "" THEN alloc ELSE [alloc EXCEPT ![field] = Some(var)]
    /\ log' = Logged(step, mode, c)
    /\ pc' = next
    /\ UNCHANGED <<F, P, circuit, pred_log, public_input, digest, result, status, cause>>

\* public_input(), called on a circuit whose constraints have been generated.
PublicInput ==
    /\ pc \in {"done", "stopped"}
    /\ public_input = None
    /\ public_input' = Some(public_input_of(F, circuit))
    /\ UNCHANGED <<F, P, circuit, pc, cs, alloc, log, pred_log, digest, result,
                   status, cause>>

(***************************************************************************)
(* RefTxCircuit::generate_constraints, one action per statement.           *)
(***************************************************************************)
AllocLockingData ==
    /\ pc = "init"
    /\ Allocate("locking_data", "Input",
                AllocData(F, cs, circuit.locking_data, "Input"), "", None,
                "integrity_tag")

AllocIntegrityTag ==
    /\ pc = "integrity_tag"
    /\ \E a \in {AllocTag(F, cs, UnwrapOr(circuit.integrity_tag, DefaultTag), "Input")} :
          Allocate("integrity_tag", "Input", a.cs, "integrity_tag", a.var,
                   "unlocking_data")

\* The unlocking data allocated as a witness.
AllocUnlockingDataAsWitness ==
    /\ pc = "unlocking_data"
    /\ Allocate("unlocking_data", "Witness",
                AllocData(F, cs, circuit.unlocking_data, "Witness"), "", None, "witness")

AllocUnlockingData ==
    /\ pc = "unlocking_data"
    /\ Allocate("unlocking_data", "Input",
                AllocData(F, cs, circuit.unlocking_data, "Input"), "", None, "witness")

AllocWitness ==
    /\ pc = "witness"
    /\ Allocate("witness", "Witness",
                AllocData(F, cs, circuit.witness, "Witness"), "", None, "spending_data")

AllocSpendingData ==
    /\ pc = "spending_data"
    /\ LET tx == UnwrapOr(circuit.spending_data, default_tx(P))
       IN  Allocate("spending_data", "Witness", AllocTx(cs, tx, "Witness"),
                    "spending_data", tx, "prev_lock_script")

\* The previous locking script defaulted to the empty script.
AllocPrevLockScriptOrEmpty ==
    /\ pc = "prev_lock_script"
    /\ LET script == UnwrapOr(circuit.prev_lock_script, <<>>)
       IN  Allocate("prev_lock_script", "Witness", AllocBytes(cs, script, "Witness"),
                    "prev_lock_script", script, "prev_amount")

AllocPrevLockScript ==
    /\ pc = "prev_lock_script"
    /\ LET script == UnwrapOr(circuit.prev_lock_script, Zeros(P.LEN_PREV_LOCK_SCRIPT))
       IN  Allocate("prev_lock_script", "Witness", AllocBytes(cs, script, "Witness"),
                    "prev_lock_script", script, "prev_amount")

AllocPrevAmount ==
    /\ pc = "prev_amount"
    /\ LET amount == UnwrapOr(circuit.prev_amount, 0)
       IN  Allocate("prev_amount", "Witness", AllocBytes(cs, U64Le(amount), "Witness"),
                    "prev_amount", amount, "sighash_cache")

AllocSighashCache ==
    /\ pc = "sighash_cache"
    /\ LET cache == UnwrapOr(circuit.sighash_cache, EmptyCache)
       IN  Allocate("sighash_cache", "Witness", AllocCache(cs, cache, "Witness"),
                    "sighash_cache", cache, "verify")

VerifyIntegrity ==
    /\ pc = "verify"
    /\ \E r \in {verify(F, P, cs, alloc.spending_data.some, alloc.prev_lock_script.some,
                         alloc.prev_amount.some, alloc.sighash_cache.some,
                         alloc.integrity_tag.some)} :
          /\ cs' = r.cs
          /\ alloc' = [alloc EXCEPT !.sighash_cache = Some(r.cache)]
          /\ digest' = IF r.status = "ok" THEN Some(r.digest) ELSE None
          /\ log' = Logged("verify", "", r.cs)
          /\ status' = IF r.status = "ok" THEN "running" ELSE r.status
          /\ cause' = r.cause
          /\ pc' = IF r.status = "ok" THEN "enforce" ELSE "stopped"
    /\ UNCHANGED <<F, P, circuit, pred_log, public_input, result>>

\* The predicate generated on the transaction variable, its Boolean left free.
EnforcePredicateGenerateOnly ==
    /\ pc = "enforce"
    /\ \E r \in {generate_constraints(circuit.predicate, cs, alloc.spending_data.some,
                                       <<>>)} :
          /\ cs' = r.cs
          /\ pred_log' = r.log
          /\ result' = IF r.status = "panic" THEN None ELSE Some(r.bool)
          /\ log' = Logged("enforce", "", r.cs)
          /\ status' = r.status
          /\ cause' = r.cause
          /\ pc' = IF r.status = "ok" THEN "done" ELSE "stopped"
    /\ UNCHANGED <<F, P, circuit, alloc, public_input, digest>>

EnforcePredicate ==
    /\ pc = "enforce"
    /\ \E r \in {enforce_constraints(circuit.predicate, cs, alloc.spending_data.some,
                                      <<>>)} :
          /\ cs' = r.cs
          /\ pred_log' = r.log
          /\ result' = IF r.status = "panic" THEN None ELSE Some(r.bool)
          /\ log' = Logged("enforce", "", r.cs)
          /\ status' = r.status
          /\ cause' = r.cause
          /\ pc' = IF r.status = "ok" THEN "done" ELSE "stopped"
    /\ UNCHANGED <<F, P, circuit, alloc, public_input, digest>>

(***************************************************************************)
(* test_ti_verify (constraints.rs): the gadget on its own, everything      *)
(* allocated as input, with a new cache; the test asserts is_satisfied.    *)
(***************************************************************************)
\* The variables the test allocates, in its order, all as public input.
TestTiInputs(field, c) ==
    AllocBytes(AllocBytes(AllocTx(AllocTag(field, NewCs, c.integrity_tag.some, "Input").cs,
                                  c.spending_data.some, "Input"),
                          c.prev_lock_script.some, "Input"),
               U64Le(c.prev_amount.some), "Input")

TestTiVerify ==
    /\ pc = "init"
    /\ IsSome(circuit.integrity_tag) /\ IsSome(circuit.spending_data)
    /\ IsSome(circuit.prev_lock_script) /\ IsSome(circuit.prev_amount)
    /\ \E tag \in {AllocTag(F, cs, circuit.integrity_tag.some, "Input").var} :
       \E r \in {verify(F, P, TestTiInputs(F, circuit), circuit.spending_data.some,
                         circuit.prev_lock_script.some, circuit.prev_amount.some,
                         EmptyCache, tag)} :
          /\ cs' = r.cs
          /\ alloc' = [integrity_tag |-> Some(tag),
                       spending_data |-> circuit.spending_data,
                       prev_lock_script |-> circuit.prev_lock_script,
                       prev_amount |-> circuit.prev_amount,
                       sighash_cache |-> Some(r.cache)]
          /\ digest' = IF r.status = "ok" THEN Some(r.digest) ELSE None
          /\ log' = Logged("verify", "", r.cs)
          /\ status' = IF r.status # "ok" THEN r.status
                       ELSE IF r.cs.satisfied THEN "ok" ELSE "panic"
          /\ cause' = IF r.status = "ok" /\ ~r.cs.satisfied THEN "test_assert"
                      ELSE r.cause
          /\ pc' = "ti_done"
    /\ UNCHANGED <<F, P, circuit, pred_log, public_input, result>>

Next ==
    \/ PublicInput
    \/ AllocLockingData
    \/ AllocIntegrityTag
    \/ AllocUnlockingData
    \/ AllocWitness
    \/ AllocSpendingData
    \/ AllocPrevLockScript
    \/ AllocPrevAmount
    \/ AllocSighashCache
    \/ VerifyIntegrity
    \/ EnforcePredicate
    \/ TestTiVerify

Spec == Init /\ [][Next]_vars

(***************************************************************************)
(* test_combine_predicates (macros.rs) and test_predicate (the predicate   *)
(* modules): a predicate on its own, enforced on a transaction allocated   *)
(* as input; the data of the predicates is the unit.                       *)
(***************************************************************************)
MaxSubs == 3

\* impl TxVarConfig for Config of the tests of macros.rs
TestConfig ==
    [N_INPUTS |-> 0, N_OUTPUTS |-> 2, LEN_UNLOCK_SCRIPTS |-> <<>>,
     LEN_LOCK_SCRIPTS |-> <<1, 1>>]

TestTx(lock_script_one, lock_script_two) ==
    [version |-> 2, inputs |-> <<>>,
     outputs |-> <<[satoshis |-> 100, lock_script |-> lock_script_one],
                   [satoshis |-> 259899900, lock_script |-> lock_script_two]>>,
     lock_time |-> 0]

TestScripts == {<<0>>, <<1>>, <<2>>}

\* The well-typed transactions of TestConfig: every locking script is one byte.
TestTxs == {TestTx(a, b) : a \in TestScripts, b \in TestScripts}

\* The predicates a combination is made of; the macro names each field
\* <type>_<n> after its position n.
TestLeaves ==
    {FixedLockScript("fixed_lock_script", <<0>>, 0),
     FixedLockScript("fixed_lock_script", <<1>>, 1),
     FixedLockScript("fixed_lock_script", <<1>>, 0),
     FixedSubLockScript("fixed_sub_lock_script", <<1>>, 1, 0, 1),
     FixedSubLockScript("fixed_sub_lock_script", <<>>, 0, 0, 0)}

Field(pred, n) == [pred EXCEPT !.name = @ \o "_" \o ToString(n)]

Combine(is_and, subs) ==
    CombinePredicates(IF is_and THEN "and" ELSE "or", is_and,
                      [n \in 1..Len(subs) |-> Field(subs[n], n)])

FlatCombinations ==
    {Combine(is_and, subs) :
        is_and \in BOOLEAN, subs \in UNION {[1..n -> TestLeaves] : n \in 1..MaxSubs}}

NestedCombinations ==
    {Combine(outer, <<Combine(inner, <<a, b>>), c>>) :
        outer \in BOOLEAN, inner \in BOOLEAN,
        a \in {FixedLockScript("fixed_lock_script", <<0>>, 0)},
        b \in {FixedLockScript("fixed_lock_script", <<1>>, 1)},
        c \in TestLeaves}

\* Predicates on an output index the transaction of the test does not have.
OutOfRangeLeaves ==
    {FixedLockScript("fixed_lock_script", <<0>>, TestConfig.N_OUTPUTS + k) : k \in {0, 1}}
    \cup {FixedSubLockScript("fixed_sub_lock_script", <<1>>, TestConfig.N_OUTPUTS + k, 0, 1) :
              k \in {0, 1}}

TestPredicates ==
    {Field(q, 1) : q \in TestLeaves \cup OutOfRangeLeaves}
    \cup FlatCombinations \cup NestedCombinations

InitPredicates ==
    /\ F = Fr
    /\ P = TestConfig
    /\ circuit \in
          {RefTxCircuit([predicate |-> q, locking_data |-> UnitDataOf(q),
                         unlocking_data |-> UnitDataOf(q)],
                        None, Some(x),
                        [prev_lock_script |-> None, prev_amount |-> None], None) :
              q \in TestPredicates, x \in TestTxs}
    /\ Fresh

\* TxVar::new_input(cs, || Ok(tx))
TestAllocTx ==
    /\ pc = "init"
    /\ Allocate("spending_data", "Input",
                AllocTx(cs, circuit.spending_data.some, "Input"),
                "spending_data", circuit.spending_data.some, "test_data")

\* new_input of the locking data, the unlocking data and the witness
TestAllocData ==
    /\ pc = "test_data"
    /\ Allocate("data", "Input",
                AllocData(F, AllocData(F, AllocData(F, cs, circuit.locking_data, "Input"),
                                       circuit.unlocking_data, "Input"),
                          circuit.witness, "Input"),
                "", None, "test_enforce")

\* predicate.enforce_constraints(...).unwrap()
TestEnforce ==
    /\ pc = "test_enforce"
    /\ \E r \in {enforce_constraints(circuit.predicate, cs, alloc.spending_data.some,
                                      <<>>)} :
          /\ cs' = r.cs
          /\ pred_log' = r.log
          /\ result' = IF r.status = "panic" THEN None ELSE Some(r.bool)
          /\ log' = Logged("enforce", "", r.cs)
          /\ status' = IF r.status = "ok" THEN "ok" ELSE "panic"
          /\ cause' = IF r.status = "error" THEN "unwrap" ELSE r.cause
          /\ pc' = "test_done"
    /\ UNCHANGED <<F, P, circuit, alloc, public_input, digest>>

\* predicate.generate_constraints(...) called on its own
TestGenerate ==
    /\ pc = "test_enforce"
    /\ \E r \in {generate_constraints(circuit.predicate, cs, alloc.spending_data.some,
                                       <<>>)} :
          /\ cs' = r.cs
          /\ pred_log' = r.log
          /\ result' = IF r.status = "panic" THEN None ELSE Some(r.bool)
          /\ log' = Logged("generate", "", r.cs)
          /\ status' = r.status
          /\ cause' = r.cause
          /\ pc' = "test_generated"
    /\ UNCHANGED <<F, P, circuit, alloc, public_input, digest>>

NextPredicates ==
    \/ TestAllocTx
    \/ TestAllocData
    \/ TestGenerate
    \/ TestEnforce

SpecPredicates == InitPredicates /\ [][NextPredicates]_vars

(***************************************************************************)
(* Properties of RefTxCircuit and of the integrity gadget, under Spec.     *)
(***************************************************************************)
\* The instance assignment as field elements, in allocation order.
InstanceElements == [k \in 1..Len(cs.instance) |-> FromLeBytesModOrder(F, cs.instance[k])]

\* C1: the vector public_input() returns is, element for element and in length,
\* the sequence of public inputs generate_constraints allocated.
C1_PublicInputIsInstance ==
    (pc \in {"done", "stopped"} /\ public_input # None)
        => public_input.some = InstanceElements

AllocationOrder ==
    <<"locking_data", "integrity_tag", "unlocking_data", "witness", "spending_data",
      "prev_lock_script", "prev_amount", "sighash_cache">>

\* C2: the public groups come in the order locking data, integrity tag, unlocking
\* data, in public_input() and in the allocations of generate_constraints, and no
\* public input is allocated after a private witness.
C2_PublicGroupsInOrder ==
    /\ pc # "ti_done" =>
          \A k \in 1..Min(Len(log), Len(AllocationOrder)) :
              /\ log[k].step = AllocationOrder[k]
              /\ log[k].mode = IF k <= 3 THEN "Input" ELSE "Witness"
    /\ \A i \in DOMAIN log : \A j \in DOMAIN log :
          (i < j /\ log[i].mode = "Witness")
              => log[j].num_instance_variables = log[i].num_instance_variables
    /\ public_input # None =>
          public_input.some = DataToVec(F, circuit.locking_data)
                              \o TagToFieldVec(F, UnwrapOr(circuit.integrity_tag, DefaultTag))
                              \o DataToVec(F, circuit.unlocking_data)

C2_Witness ==
    /\ pc = "done" /\ public_input # None /\ Len(log) = 10
    /\ circuit.locking_data.kind = "field_array"
    /\ circuit.unlocking_data.kind = "byte_array"

\* The circuit is given the transaction, the previous locking script and the
\* previous amount that the tag was committed to.
CommittedInstance ==
    /\ IsSome(circuit.integrity_tag) /\ IsSome(circuit.spending_data)
    /\ IsSome(circuit.prev_lock_script) /\ IsSome(circuit.prev_amount)
    /\ \E c \in {commit(P, circuit.spending_data.some, circuit.prev_lock_script.some,
                          circuit.prev_amount.some, EmptyCache)} :
          c.status = "ok" /\ c.tag = circuit.integrity_tag.some

\* C3: when the tag is what commit returns for the transaction, previous locking
\* script and previous amount supplied as witnesses, and the predicate holds on the
\* transaction, the constraint system generate_constraints produces is satisfied.
C3_Completeness ==
    (pc = "done" /\ CommittedInstance /\ result.some.val) => cs.satisfied

\* C4: a satisfied constraint system means that the predicate is true on the witness
\* transaction and that the public tag is the signature hash of that transaction
\* with the witness previous locking script and previous amount.
C4_Soundness ==
    (pc = "done" /\ cs.satisfied)
        => /\ result.some.val
           /\ UnwrapOr(circuit.integrity_tag, DefaultTag)
                 = sighash(alloc.spending_data.some, P.N_INPUT,
                           alloc.prev_lock_script.some, alloc.prev_amount.some,
                           P.SIGHASH_FLAG, EmptyCache).hash

\* C5: the gadget, given an empty cache, accepts the tag the native commit returns
\* for the transaction, script and amount allocated into the circuit.
C5_CommitAccepted ==
    (pc = "ti_done" /\ CommittedInstance) => (status = "ok" /\ cs.satisfied)

C5_Witness ==
    pc = "ti_done" /\ CommittedInstance /\ F = F64 /\ cs.satisfied

\* C6: a public tag that differs from the digest the circuit computes leaves the
\* constraint system unsatisfied after the gadget's verify.
C6_TagBinding ==
    (digest # None /\ UnwrapOr(circuit.integrity_tag, DefaultTag) # digest.some)
        => ~cs.satisfied

C6_Witness ==
    /\ pc = "ti_done" /\ digest # None /\ ~cs.satisfied
    /\ circuit.prev_amount = Some(260000)
    /\ circuit.integrity_tag = Some(TagOf(circuit.spending_data.some, 260001))

(***************************************************************************)
(* Properties of the predicates, under SpecPredicates.                     *)
(***************************************************************************)
\* The test of a predicate on a transaction, from a new constraint system.
TestRun(pred, tx) == enforce_constraints(pred, AllocTx(NewCs, tx, "Input"), tx, <<>>)

\* The Boolean a sub-predicate returns on the transaction.
SubReturns(sub, tx) == generate_constraints(sub, NewCs, tx, <<>>).bool.val

\* A combined predicate's generate_constraints returned a Boolean.
CombinedReturned(is_and) ==
    /\ pc = "test_done" /\ result # None
    /\ circuit.predicate.kind = "Combined" /\ circuit.predicate.is_and = is_and

\* C7: the Boolean of an AND combination is true iff every sub-predicate returns
\* true, and enforcing it leaves the system satisfied iff every sub-predicate holds.
C7_AndIffAll ==
    CombinedReturned(TRUE) =>
        \A all \in {\A k \in DOMAIN circuit.predicate.subs :
                        SubReturns(circuit.predicate.subs[k], circuit.spending_data.some)} :
            /\ result.some.val = all
            /\ (status = "ok" /\ cs.satisfied) = all

C7_Witness ==
    /\ CombinedReturned(TRUE) /\ Len(circuit.predicate.subs) >= 2
    /\ ~result.some.val /\ ~cs.satisfied
    /\ \E k \in DOMAIN circuit.predicate.subs :
          SubReturns(circuit.predicate.subs[k], circuit.spending_data.some)

\* C8: the Boolean of an OR combination is true iff at least one sub-predicate
\* returns true, and enforcing it leaves the system satisfied iff one holds.
C8_OrIffSome ==
    CombinedReturned(FALSE) =>
        \A some \in {\E k \in DOMAIN circuit.predicate.subs :
                         SubReturns(circuit.predicate.subs[k], circuit.spending_data.some)} :
            /\ result.some.val = some
            /\ (status = "ok" /\ cs.satisfied) = some

C8_Witness ==
    /\ CombinedReturned(FALSE) /\ Len(circuit.predicate.subs) >= 2
    /\ result.some.val /\ cs.satisfied
    /\ \E k \in DOMAIN circuit.predicate.subs :
          ~SubReturns(circuit.predicate.subs[k], circuit.spending_data.some)

\* A predicate and its sub-predicates, by name, in declaration order.
RECURSIVE Declared(_)
Declared(pred) ==
    IF pred.kind = "Combined"
    THEN <<pred.name>> \o Concat([k \in DOMAIN pred.subs |-> Declared(pred.subs[k])])
    ELSE <<pred.name>>

\* C9: a successful generate_constraints of a combined predicate runs the
\* generate_constraints of every sub-predicate once, in declaration order, and
\* emits as many constraints whatever the sub-predicates evaluate to.
C9_NoShortCircuit ==
    (pc = "test_done" /\ result # None /\ circuit.predicate.kind = "Combined") =>
        /\ pred_log = Declared(circuit.predicate)
        /\ \A x \in TestTxs : \A r \in {TestRun(circuit.predicate, x)} :
              /\ r.log = pred_log
              /\ r.cs.num_constraints = cs.num_constraints

C9_Witness ==
    /\ CombinedReturned(FALSE) /\ Len(circuit.predicate.subs) >= 2
    /\ SubReturns(circuit.predicate.subs[1], circuit.spending_data.some)
    /\ Len(pred_log) = Len(circuit.predicate.subs) + 1

\* C10: for a fixed predicate and configuration, any two well-typed transactions
\* make generate_constraints allocate as many constraints and as many variables.
C10_ShapeInvariance ==
    pc = "test_done" =>
        \A x \in TestTxs : \A r \in {TestRun(circuit.predicate, x)} :
            /\ r.cs.num_constraints = cs.num_constraints
            /\ r.cs.num_witness_variables = cs.num_witness_variables
            /\ r.cs.num_instance_variables = cs.num_instance_variables

C10_Witness ==
    /\ pc = "test_done" /\ result # None /\ ~result.some.val
    /\ circuit.predicate.kind = "FixedSubLockScript"
    /\ \E x \in TestTxs : TestRun(circuit.predicate, x).bool.val

(***************************************************************************)
(* The shape of the circuit RefTxCircuit::generate_constraints builds.     *)
(***************************************************************************)
\* The circuit with every secret field absent.
SecretsAbsent(c) ==
    [c EXCEPT !.spending_data = None, !.prev_lock_script = None,
              !.prev_amount = None, !.sighash_cache = None]

\* The constraint system once generate_constraints has allocated its variables.
AllocatedCs(Fd, Pc, c) ==
    AllocCache(
      AllocBytes(
        AllocBytes(
          AllocTx(
            AllocData(Fd,
              AllocData(Fd,
                AllocTag(Fd, AllocData(Fd, NewCs, c.locking_data, "Input"),
                         UnwrapOr(c.integrity_tag, DefaultTag), "Input").cs,
                c.unlocking_data, "Input"),
              c.witness, "Witness"),
            UnwrapOr(c.spending_data, default_tx(Pc)), "Witness"),
          UnwrapOr(c.prev_lock_script, Zeros(Pc.LEN_PREV_LOCK_SCRIPT)), "Witness"),
        U64Le(UnwrapOr(c.prev_amount, 0)), "Witness"),
      UnwrapOr(c.sighash_cache, EmptyCache), "Witness")

\* The constraint system RefTxCircuit::generate_constraints ends with.
GeneratedCs(Fd, Pc, c) ==
    enforce_constraints(
        c.predicate,
        verify(Fd, Pc, AllocatedCs(Fd, Pc, c),
               UnwrapOr(c.spending_data, default_tx(Pc)),
               UnwrapOr(c.prev_lock_script, Zeros(Pc.LEN_PREV_LOCK_SCRIPT)),
               UnwrapOr(c.prev_amount, 0),
               UnwrapOr(c.sighash_cache, EmptyCache),
               AllocTag(Fd, NewCs, UnwrapOr(c.integrity_tag, DefaultTag), "Input").var).cs,
        UnwrapOr(c.spending_data, default_tx(Pc)), <<>>).cs

SameShape(a, b) ==
    /\ a.num_instance_variables = b.num_instance_variables
    /\ a.num_witness_variables = b.num_witness_variables
    /\ a.num_constraints = b.num_constraints

\* C11: for a fixed predicate and configuration, generate_constraints of
\* RefTxCircuit allocates as many instance variables, witness variables and
\* constraints whether its secret fields (transaction, previous locking script,
\* previous amount, sighash cache) are absent or present.
C11_RefTxShapeInvariance ==
    /\ pc = "verify" => SameShape(cs, AllocatedCs(F, P, SecretsAbsent(circuit)))
    /\ pc = "done" => SameShape(cs, GeneratedCs(F, P, SecretsAbsent(circuit)))

(***************************************************************************)
(* The native scheme (transaction_integrity_gadget/mod.rs): commit and     *)
(* verify called on a transaction, a previous output and a cache that the  *)
(* calls fill.  SpecScheme runs commit, commit again and verify.           *)
(***************************************************************************)
\* verify against the tag of a commit made with a new cache.
scheme_verify_new_cache(Pc, tx, prev_lock_script, prev_amount, sighash_cache, tag) ==
    [status |-> commit(Pc, tx, prev_lock_script, prev_amount, sighash_cache).status,
     result |-> commit(Pc, tx, prev_lock_script, prev_amount, EmptyCache).tag = tag,
     cache  |-> commit(Pc, tx, prev_lock_script, prev_amount, sighash_cache).cache]

\* The result of verify: whether the tag commit returned is the one supplied.
SchemeVerified(r, tag) ==
    [status |-> r.status, result |-> r.status = "ok" /\ r.tag = tag, cache |-> r.cache]

\* TransactionIntegrityScheme::verify
scheme_verify(Pc, tx, prev_lock_script, prev_amount, sighash_cache, tag) ==
    SchemeVerified(commit(Pc, tx, prev_lock_script, prev_amount, sighash_cache), tag)

MaxCommits == 2

SchemeFlags == {65, 66, 67, 193, 194, 195}

SchemeConfig(n, flag) ==
    [Config EXCEPT !.N_INPUTS = 2, !.LEN_UNLOCK_SCRIPTS = <<0, 1>>,
                   !.N_INPUT = n, !.SIGHASH_FLAG = flag]

SchemeConfigs == {SchemeConfig(n, flag) : n \in {0, 1}, flag \in SchemeFlags}

\* A transaction with two inputs and the outputs of TxA.
SchemeTx ==
    [TxA EXCEPT !.inputs =
        @ \o <<[prev_output |-> [hash |-> [i \in 1..TagLen |-> (11 * i) % 256],
                                 index |-> 1],
                unlock_script |-> <<81>>, sequence |-> 16]>>]

\* The same with the outputs of TxB.
SchemeTxOther == [SchemeTx EXCEPT !.outputs = TxB.outputs]

SchemeTxs == {SchemeTx, SchemeTxOther, TxA}

SchemeScripts == {PrevLockScript, <<118, 173>>, <<118>>}

\* The cache before the call: new, holding hash_prevouts only, left by a call on
\* the same transaction, or left by a call on the other transaction.
SchemeCaches(tx) ==
    {EmptyCache,
     [EmptyCache EXCEPT !.hash_prevouts = Some(HashPrevouts(tx))],
     CacheAfter(tx),
     CacheAfter(IF tx = SchemeTx THEN SchemeTxOther ELSE SchemeTx)}

\* The tags handed to verify: the one commit returns, the one it returns with a
\* new cache, and one that differs from it in a bit.
SchemeTags(Pc, x, s, a, c) ==
    {commit(Pc, x, s, a, c).tag, commit(Pc, x, s, a, EmptyCache).tag,
     FlipBit(commit(Pc, x, s, a, c).tag, 1)}

\* The arguments of a call: a transaction, a previous output, a cache, a tag.
SchemeCall(x, s, a, c, t) ==
    [spending_data |-> x, prev_lock_script |-> s, prev_amount |-> a,
     sighash_cache |-> c, integrity_tag |-> t]

SchemeCallsOn(Pc, x, s, a) ==
    UNION {{SchemeCall(x, s, a, c, t) : t \in SchemeTags(Pc, x, s, a, c)} :
              c \in SchemeCaches(x)}

SchemeCalls(Pc) ==
    UNION {SchemeCallsOn(Pc, x, s, a) :
              x \in SchemeTxs, s \in SchemeScripts, a \in PrevAmounts}

InitScheme ==
    /\ F = Fr
    /\ P \in SchemeConfigs
    /\ circuit \in SchemeCalls(P)
    /\ Fresh

\* The cache the next call is handed: the caller's, as the calls so far left it.
CurrentCache == UnwrapOr(alloc.sighash_cache, circuit.sighash_cache)

\* commit, and commit again on the cache the first call left.
Commit ==
    /\ pc \in {"init", "committed"}
    /\ Len(log) < MaxCommits
    /\ \E r \in {commit(P, circuit.spending_data, circuit.prev_lock_script,
                         circuit.prev_amount, CurrentCache)} :
          /\ log' = Append(log, [step |-> "commit", status |-> r.status, tag |-> r.tag])
          /\ digest' = IF r.status = "ok" THEN Some(r.tag) ELSE None
          /\ alloc' = [alloc EXCEPT !.sighash_cache = Some(r.cache)]
          /\ status' = r.status
          /\ cause' = IF r.status = "ok" THEN "" ELSE "commit"
          /\ pc' = IF r.status = "ok" THEN "committed" ELSE "stopped"
    /\ UNCHANGED <<F, P, circuit, cs, pred_log, public_input, result>>

\* A call of verify on the cache as it is, with the given tag.
VerifyTag(tag, next) ==
    /\ \E r \in {scheme_verify(P, circuit.spending_data, circuit.prev_lock_script,
                                circuit.prev_amount, CurrentCache, tag)} :
          /\ result' = IF r.status = "ok" THEN Some(r.result) ELSE None
          /\ alloc' = [alloc EXCEPT !.sighash_cache = Some(r.cache)]
          /\ status' = r.status
          /\ cause' = IF r.status = "ok" THEN "" ELSE "commit"
          /\ pc' = IF r.status = "ok" THEN next ELSE "stopped"
    /\ UNCHANGED <<F, P, circuit, cs, log, pred_log, public_input, digest>>

\* verify on the tag and cache the caller supplies.
Verify ==
    /\ pc = "init"
    /\ VerifyTag(circuit.integrity_tag, "verified")

\* verify on the output of commit, reusing the cache as commit left it.
VerifyCommitted ==
    /\ pc = "committed"
    /\ VerifyTag(digest.some, "reverified")

NextScheme ==
    \/ Commit
    \/ Verify
    \/ VerifyCommitted

SpecScheme == InitScheme /\ [][NextScheme]_vars

\* The tag commit returns for the call's arguments with the given cache.
CommitTag(c) ==
    commit(P, circuit.spending_data, circuit.prev_lock_script, circuit.prev_amount, c).tag

\* C12: for fixed (transaction, previous locking script, previous amount, input
\* index, sighash flag) commit returns the same tag on every call and whatever
\* the cache it is handed holds: the tag it returns with a new cache.
C12_CommitDeterminism ==
    \A i \in 1..Len(log) :
        (log[i].step = "commit" /\ log[i].status = "ok") =>
            log[i].tag = CommitTag(EmptyCache)

\* C13: native verify returns true iff the supplied tag equals the tag commit
\* returns for the same transaction, previous output and cache; verify on the
\* output of commit, with the cache as commit left it, returns true.
C13_VerifyIffCommit ==
    /\ pc = "verified" =>
          result = Some(circuit.integrity_tag = CommitTag(circuit.sighash_cache))
    /\ pc = "reverified" => result = Some(TRUE)

\* verify accepted the output of a commit whose cache another transaction filled.
C13_Witness ==
    /\ pc = "reverified" /\ result = Some(TRUE)
    /\ digest.some # CommitTag(EmptyCache)

(***************************************************************************)
(* What the tag binds: the calls that differ from the one made in a single *)
(* field, and the fields the BIP-143 preimage of the flag covers.          *)
(***************************************************************************)
\* A script that differs from the given one in its first byte.
Bump(script) ==
    IF script = <<>> THEN <<1>> ELSE [script EXCEPT ![1] = (@ + 1) % 256]

\* A call that differs in the named field (of input or output k) from the one made.
Perturbed(field, k, Pc, x, s, a) ==
    [field |-> field, k |-> k, P |-> Pc, spending_data |-> x,
     prev_lock_script |-> s, prev_amount |-> a]

TxPerturbations(Pc, x, s, a) ==
    {Perturbed("version", 0, Pc, [x EXCEPT !.version = @ + 1], s, a),
     Perturbed("lock_time", 0, Pc, [x EXCEPT !.lock_time = @ + 1], s, a)}
    \cup {Perturbed("outpoint_hash", k, Pc,
                    [x EXCEPT !.inputs[k].prev_output.hash = FlipBit(@, 1)], s, a) :
             k \in 1..Len(x.inputs)}
    \cup {Perturbed("outpoint_index", k, Pc,
                    [x EXCEPT !.inputs[k].prev_output.index = @ + 1], s, a) :
             k \in 1..Len(x.inputs)}
    \cup {Perturbed("unlock_script", k, Pc,
                    [x EXCEPT !.inputs[k].unlock_script = Bump(@)], s, a) :
             k \in 1..Len(x.inputs)}
    \cup {Perturbed("sequence", k, Pc, [x EXCEPT !.inputs[k].sequence = @ + 1], s, a) :
             k \in 1..Len(x.inputs)}
    \cup {Perturbed("output_amount", k, Pc,
                    [x EXCEPT !.outputs[k].satoshis = @ + 1], s, a) :
             k \in 1..Len(x.outputs)}
    \cup {Perturbed("output_script", k, Pc,
                    [x EXCEPT !.outputs[k].lock_script = Bump(@)], s, a) :
             k \in 1..Len(x.outputs)}

Perturbations(Pc, x, s, a) ==
    TxPerturbations(Pc, x, s, a)
    \cup {Perturbed("prev_lock_script", 0, Pc, x, Bump(s), a),
          Perturbed("prev_amount", 0, Pc, x, s, a + 1)}
    \cup {Perturbed("input_index", 0, [Pc EXCEPT !.N_INPUT = n], x, s, a) :
             n \in (0..(Len(x.inputs) - 1)) \ {Pc.N_INPUT}}
    \cup {Perturbed("sighash_flag", 0, [Pc EXCEPT !.SIGHASH_FLAG = f], x, s, a) :
             f \in SchemeFlags \ {Pc.SIGHASH_FLAG}}

\* The tag commit returns for a perturbed call, with a new cache.
PerturbedTag(p) ==
    commit(p.P, p.spending_data, p.prev_lock_script, p.prev_amount, EmptyCache).tag

\* Whether the preimage of the call's flag and input index holds the field.
Covered(p, Pc) ==
    CASE p.field \in {"outpoint_hash", "outpoint_index"} ->
            p.k = Pc.N_INPUT + 1 \/ WantsPrevouts(Pc.SIGHASH_FLAG)
      [] p.field = "sequence" ->
            p.k = Pc.N_INPUT + 1 \/ WantsSequence(Pc.SIGHASH_FLAG)
      [] p.field = "unlock_script" -> FALSE
      [] p.field \in {"output_amount", "output_script"} ->
            \/ WantsOutputs(Pc.SIGHASH_FLAG)
            \/ BaseType(Pc.SIGHASH_FLAG) = 3 /\ p.k = Pc.N_INPUT + 1
      [] OTHER -> TRUE

\* A first commit, made on a new cache, returned its tag.
CommittedOnNewCache ==
    /\ pc = "committed" /\ Len(log) = 1
    /\ circuit.sighash_cache = EmptyCache

MaxBits == 384

\* The little-endian bytes of 2^(b-1) + 1, a modulus of bit-size b (1 for b = 1).
ModulusOfBits(b) ==
    IF b = 1 THEN <<1>>
    ELSE IF b <= 8 THEN <<2^(b - 1) + 1>>
    ELSE <<1>> \o Zeros((b + 7) \div 8 - 2) \o <<2^((b - 1) % 8)>>

FieldOfBits(b) ==
    [name |-> "F" \o ToString(b), MODULUS_BIT_SIZE |-> b, MODULUS |-> ModulusOfBits(b)]

ChunkFields == Fields \cup {FieldOfBits(b) : b \in 1..MaxBits}

\* The tags chunked: a committed one and the one of 32 bytes 255.
ChunkTags == {TagOf(TxA, 260000), [i \in 1..TagLen |-> 255]}

InitChunks ==
    /\ F \in ChunkFields
    /\ P = Config
    /\ circuit \in {[integrity_tag |-> t] : t \in ChunkTags}
    /\ Fresh

\* get_chunk_size::<F>()
GetChunkSize ==
    /\ pc = "init"
    /\ result' = Some(get_chunk_size(F))
    /\ pc' = "chunk_size"
    /\ UNCHANGED <<F, P, circuit, cs, alloc, log, pred_log, public_input, digest,
                   status, cause>>

\* to_fp_chunks::<F>(&tag.inner)
ToFpChunks ==
    /\ pc = "chunk_size"
    /\ F.MODULUS_BIT_SIZE > 1
    /\ public_input' = Some(to_fp_chunks(F, circuit.integrity_tag))
    /\ pc' = "chunks"
    /\ UNCHANGED <<F, P, circuit, cs, alloc, log, pred_log, digest, result,
                   status, cause>>

NextChunks ==
    \/ GetChunkSize
    \/ ToFpChunks

SpecChunks == InitChunks /\ [][NextChunks]_vars

ChunkSizes == {32, 16, 8, 4, 2, 1}

\* C15: for every modulus bit-size b >= 1, get_chunk_size returns the largest c
\* of 32, 16, 8, 4, 2, 1 such that 8 * c is strictly less than b.
C15_ChunkingRule ==
    pc \in {"chunk_size", "chunks"} =>
        /\ result.some \in ChunkSizes
        /\ 8 * result.some < F.MODULUS_BIT_SIZE
        /\ \A c \in ChunkSizes : 8 * c < F.MODULUS_BIT_SIZE => c <= result.some

\* C16: for a modulus of bit-size 255 the chunk size is 16 bytes and the tag
\* becomes 2 field elements; for every bit-size above 256 the chunk size is 32
\* bytes and the tag becomes a single field element.
C16_DocumentedChunkSizes ==
    /\ (pc \in {"chunk_size", "chunks"} /\ F.MODULUS_BIT_SIZE = 255) => result = Some(16)
    /\ (pc \in {"chunk_size", "chunks"} /\ F.MODULUS_BIT_SIZE > 256) => result = Some(32)
    /\ (pc = "chunks" /\ F.MODULUS_BIT_SIZE = 255) => Len(public_input.some) = 2
    /\ (pc = "chunks" /\ F.MODULUS_BIT_SIZE > 256) => Len(public_input.some) = 1

\* The tag of a commit chunked for the field of the reftx tests: two elements.
C16_Witness ==
    /\ pc = "chunks" /\ F = Fr
    /\ circuit.integrity_tag = TagOf(TxA, 260000)
    /\ Len(public_input.some) = 2
    /\ result = Some(16)

\* C17: whatever cache reaches the gadget (new, filled by an earlier call on the
\* same transaction, or allocated from the circuit's sighash_cache), the digest
\* compared against the tag is the digest computed with an empty cache.
C17_CacheOptimizationOnly ==
    digest # None =>
        digest.some = sighash(alloc.spending_data.some, P.N_INPUT,
                              alloc.prev_lock_script.some, alloc.prev_amount.some,
                              P.SIGHASH_FLAG, EmptyCache).hash

(***************************************************************************)
(* generate_constraints and enforce_constraints of a predicate, under      *)
(* SpecPredicates.                                                         *)
(***************************************************************************)
\* The constraint system of the test before the predicate is called.
TestCs(c) ==
    AllocData(Fr,
        AllocData(Fr,
            AllocData(Fr, AllocTx(NewCs, c.spending_data.some, "Input"),
                      c.locking_data, "Input"),
            c.unlocking_data, "Input"),
        c.witness, "Input")

\* C18: generate_constraints returns its Boolean without constraining it (the
\* system stays satisfied when the Boolean is false); enforce_constraints runs
\* generate_constraints once on the same arguments and adds to what it built only
\* the constraint that the Boolean is true, which a constant true needs not.
C18_EnforceIsGeneratePlusOne ==
    /\ (pc = "test_generated" /\ result # None) => cs.satisfied
    /\ (pc = "test_done" /\ result # None) =>
          \A g \in {generate_constraints(circuit.predicate, TestCs(circuit),
                                         circuit.spending_data.some, <<>>)} :
              /\ g.status = "ok"
              /\ pred_log = g.log
              /\ result.some = g.bool
              /\ cs.num_instance_variables = g.cs.num_instance_variables
              /\ cs.num_witness_variables = g.cs.num_witness_variables
              /\ cs.num_constraints
                    = g.cs.num_constraints + (IF g.bool.const THEN 0 ELSE 1)
              /\ cs.satisfied = g.bool.val

\* generate_constraints returned false and left the system satisfied, where
\* enforce_constraints leaves it unsatisfied.
C18_Witness ==
    /\ pc = "test_generated" /\ result # None
    /\ ~result.some.val /\ cs.satisfied
    /\ ~TestRun(circuit.predicate, circuit.spending_data.some).cs.satisfied

\* C19: a predicate that is false on the witness, or a tag that does not match,
\* is not an error: generate_constraints of RefTxCircuit (and the
\* enforce_constraints it calls) returns Ok without aborting, and the failure
\* shows only as a constraint system that is not satisfied.
C19_UnsatisfiedIsNotAnError ==
    pc \in {"done", "stopped"} =>
        /\ pc = "done" /\ status = "ok"
        /\ result # None /\ digest # None
        /\ cs.satisfied <=>
              /\ result.some.val
              /\ digest.some = UnwrapOr(circuit.integrity_tag, DefaultTag)

\* The tag matches and the predicate is false: Ok, and an unsatisfied system.
C19_Witness ==
    /\ pc = "done" /\ status = "ok"
    /\ digest = circuit.integrity_tag
    /\ ~result.some.val
    /\ ~cs.satisfied

\* C20: for every output index that addresses no output of the transaction
\* (index >= number of outputs), generate_constraints of FixedLockScript and of
\* FixedSubLockScript stops at its index validation check, before any output is
\* accessed and before anything is allocated.
C20_IndexAbortsAtValidation ==
    (/\ pc \in {"test_generated", "test_done"}
     /\ circuit.predicate.kind \in {"FixedLockScript", "FixedSubLockScript"}
     /\ circuit.predicate.index >= Len(circuit.spending_data.some.outputs)) =>
        /\ status = "panic" /\ cause = "validation"
        /\ result = None
        /\ SameShape(cs, TestCs(circuit))

(***************************************************************************)
(* RefTxCircuit::generate_constraints on previous locking scripts of any   *)
(* length: the runs that abort and the runs that complete.                 *)
(***************************************************************************)
\* The previous locking scripts a prover can put in the circuit.
AnyLengthScripts == {PrevLockScript, <<118>>, <<118, 172, 1>>}

InitAborts ==
    /\ F \in Fields
    /\ P = Config
    /\ circuit \in
          {RefTxCircuit(b, t, x, [prev_lock_script |-> s, prev_amount |-> a], None) :
              b \in PredicateSet, t \in {None, Some(TagOf(TxA, 260000))},
              x \in OptionOf({TxA}), s \in OptionOf(AnyLengthScripts),
              a \in {None, Some(260000)}}
    /\ Fresh

SpecAborts == InitAborts /\ [][Next]_vars

\* The call of the gadget generate_constraints makes on the circuit's fields.
GeneratedVerify(Fd, Pc, c) ==
    verify(Fd, Pc, AllocatedCs(Fd, Pc, c),
           UnwrapOr(c.spending_data, default_tx(Pc)),
           UnwrapOr(c.prev_lock_script, Zeros(Pc.LEN_PREV_LOCK_SCRIPT)),
           UnwrapOr(c.prev_amount, 0),
           UnwrapOr(c.sighash_cache, EmptyCache),
           AllocTag(Fd, NewCs, UnwrapOr(c.integrity_tag, DefaultTag), "Input").var)

GeneratedStatusAfter(Pc, c, v) ==
    IF v.status # "ok" THEN v.status
    ELSE enforce_constraints(c.predicate, v.cs,
                             UnwrapOr(c.spending_data, default_tx(Pc)), <<>>).status

\* How RefTxCircuit::generate_constraints ends: "ok", "error" or "panic".
GeneratedStatus(Fd, Pc, c) == GeneratedStatusAfter(Pc, c, GeneratedVerify(Fd, Pc, c))

\* C21: whether generate_constraints of RefTxCircuit aborts is decided by the
\* configuration and the predicate: a circuit aborts iff the circuit with the
\* same predicate and public fields and every secret field absent aborts.
C21_AbortsIndependentOfSecrets ==
    pc \in {"done", "stopped"} =>
        ((status = "panic") <=> (GeneratedStatus(F, P, SecretsAbsent(circuit)) = "panic"))

(***************************************************************************)
(* Failures inside RefTxCircuit::generate_constraints: an allocation that  *)
(* returns Err, and a sub-predicate whose generate_constraints returns     *)
(* Err.  Every step ends in `?`.                                           *)
(***************************************************************************)
\* The allocations of generate_constraints, in order, by the pc they run at.
AllocSteps ==
    <<"init", "integrity_tag", "unlocking_data", "witness", "spending_data",
      "prev_lock_script", "prev_amount", "sighash_cache">>

StepIndex(step) == CHOOSE k \in DOMAIN AllocSteps : AllocSteps[k] = step

Failing == FailingPredicate("failing")

\* Combinations with a failing sub-predicate first, in the middle and last.
FailingPredicates ==
    {CombinePredicates(IF is_and THEN "and" ELSE "or", is_and, subs) :
        is_and \in BOOLEAN,
        subs \in {<<Failing, LockA>>, <<LockA, Failing, LockC>>, <<LockA, LockC, Failing>>}}

InitFailures ==
    /\ F \in Fields
    /\ P = Config
    /\ circuit \in
          {RefTxCircuit([predicate |-> q, locking_data |-> UnitDataOf(q),
                         unlocking_data |-> UnitDataOf(q)],
                        t, x, o, None) :
              q \in FailingPredicates \cup {LockA},
              t \in {None, Some(TagOf(TxA, 260000))}, x \in OptionOf({TxA, TxB}),
              o \in {[prev_lock_script |-> None, prev_amount |-> None],
                     [prev_lock_script |-> Some(PrevLockScript),
                      prev_amount |-> Some(260000)]}}
    /\ Fresh

\* An allocation returns Err and the run goes on to the next step.
AllocationFailsAndContinues ==
    /\ \E k \in DOMAIN AllocSteps : pc = AllocSteps[k]
    /\ status = "running"
    /\ status' = "error"
    /\ cause' = pc
    /\ pc' = IF StepIndex(pc) < Len(AllocSteps) THEN AllocSteps[StepIndex(pc) + 1]
             ELSE "verify"
    /\ UNCHANGED <<F, P, circuit, cs, alloc, log, pred_log, public_input, digest, result>>

\* An allocation returns Err: the ? returns it from generate_constraints.
AllocationFails ==
    /\ \E k \in DOMAIN AllocSteps : pc = AllocSteps[k]
    /\ status = "running"
    /\ status' = "error"
    /\ cause' = pc
    /\ pc' = "stopped"
    /\ UNCHANGED <<F, P, circuit, cs, alloc, log, pred_log, public_input, digest, result>>

NextFailures ==
    \/ Next
    \/ AllocationFails

SpecFailures == InitFailures /\ [][NextFailures]_vars

\* The sub-predicates of a combination declared before its failing one.
RECURSIVE BeforeFailing(_, _)
BeforeFailing(subs, k) ==
    IF k > Len(subs) \/ subs[k].kind = "Failing" THEN <<>>
    ELSE <<subs[k]>> \o BeforeFailing(subs, k + 1)

\* generate_constraints of the sub-predicates that ran before the failing one.
RanBeforeFailing(Fd, Pc, c) ==
    GenerateSubs(BeforeFailing(c.predicate.subs, 1), 1, GeneratedVerify(Fd, Pc, c).cs,
                 UnwrapOr(c.spending_data, default_tx(Pc)), <<c.predicate.name>>, <<>>)

\* C22: when an allocation of RefTxCircuit::generate_constraints, or the
\* generate_constraints of a sub-predicate of a combined predicate, returns an
\* error, the run returns that error at once: no later allocation, no gadget, no
\* predicate, no later sub-predicate and no fold of the Booleans runs.
C22_ErrorsPropagateAtOnce ==
    (status = "error" /\ pc # "ti_done") =>
        /\ pc = "stopped"
        /\ cause \in {AllocSteps[k] : k \in DOMAIN AllocSteps} =>
              /\ Len(log) = StepIndex(cause) - 1
              /\ digest = None /\ result = None /\ pred_log = <<>>
              /\ log = <<>> => cs = NewCs
              /\ log # <<>> =>
                    /\ cs.num_instance_variables = log[Len(log)].num_instance_variables
                    /\ cs.num_witness_variables = log[Len(log)].num_witness_variables
        /\ cause = "synthesis" =>
              \A g \in {RanBeforeFailing(F, P, circuit)} :
                  /\ pred_log = Append(g.log, "failing")
                  /\ SameShape(cs, g.cs)
                  /\ cs.satisfied = g.cs.satisfied

\* The second of three sub-predicates returned Err: the first ran, the third did not.
C22_Witness ==
    /\ status = "error" /\ cause = "synthesis" /\ pc = "stopped"
    /\ Len(circuit.predicate.subs) = 3
    /\ pred_log = <<circuit.predicate.name, LockA.name, "failing">>

\* Every byte of the sequence is zero.
AllZero(bytes) == \A i \in DOMAIN bytes : bytes[i] = 0

\* The transaction has the configured numbers of inputs and outputs and script
\* lengths, and every field of it is zero.
ZeroShaped(Pc, tx) ==
    /\ tx.version = 0 /\ tx.lock_time = 0
    /\ Len(tx.inputs) = Pc.N_INPUTS /\ Len(tx.outputs) = Pc.N_OUTPUTS
    /\ \A k \in DOMAIN tx.inputs :
          /\ AllZero(tx.inputs[k].prev_output.hash) /\ tx.inputs[k].prev_output.index = 0
          /\ tx.inputs[k].sequence = 0
          /\ Len(tx.inputs[k].unlock_script) = Pc.LEN_UNLOCK_SCRIPTS[k]
          /\ AllZero(tx.inputs[k].unlock_script)
    /\ \A k \in DOMAIN tx.outputs :
          /\ tx.outputs[k].satoshis = 0
          /\ Len(tx.outputs[k].lock_script) = Pc.LEN_LOCK_SCRIPTS[k]
          /\ AllZero(tx.outputs[k].lock_script)

\* No optional field of the circuit is given.
AllAbsent(c) ==
    /\ c.integrity_tag = None /\ c.spending_data = None /\ c.prev_lock_script = None
    /\ c.prev_amount = None /\ c.sighash_cache = None

\* C23: an absent tag is allocated, and given by public_input(), as the tag of 32
\* zero bytes; an absent transaction as the zero transaction of the configured
\* shape; an absent previous locking script as LEN_PREV_LOCK_SCRIPT zero bytes;
\* an absent amount as 0; an absent cache as the empty cache; and the run with
\* every optional field absent passes the gadget's length check and completes.
C23_Defaults ==
    /\ (circuit.integrity_tag = None /\ IsSome(alloc.integrity_tag)) =>
          /\ Len(alloc.integrity_tag.some.inner) = TagLen \div get_chunk_size(F)
          /\ \A k \in DOMAIN alloc.integrity_tag.some.inner :
                AllZero(alloc.integrity_tag.some.inner[k])
    /\ (circuit.integrity_tag = None /\ IsSome(public_input)) =>
          public_input.some
              = public_input_of(F, [circuit EXCEPT !.integrity_tag = Some(Zeros(TagLen))])
    /\ (circuit.spending_data = None /\ IsSome(alloc.spending_data)) =>
          ZeroShaped(P, alloc.spending_data.some)
    /\ (circuit.prev_lock_script = None /\ IsSome(alloc.prev_lock_script)) =>
          /\ Len(alloc.prev_lock_script.some) = P.LEN_PREV_LOCK_SCRIPT
          /\ AllZero(alloc.prev_lock_script.some)
    /\ (circuit.prev_amount = None /\ IsSome(alloc.prev_amount)) =>
          alloc.prev_amount.some = 0
    /\ (circuit.sighash_cache = None /\ pc = "verify") =>
          alloc.sighash_cache = Some(EmptyCache)
    /\ (AllAbsent(circuit) /\ pc \in {"enforce", "done", "stopped"}) =>
          /\ status # "panic" /\ pc # "stopped"
          /\ IsSome(digest)

\* The run with every optional field absent completed.
C23_Witness ==
    /\ AllAbsent(circuit) /\ pc = "done" /\ status = "ok"
    /\ IsSome(public_input)
    /\ ZeroShaped(P, alloc.spending_data.some)

(***************************************************************************)
(* The combined data of macros.rs: its conversion and its allocation.      *)
(***************************************************************************)
\* The length of the conversions of the slots before slot k.
RECURSIVE OffsetOfSlot(_, _, _)
OffsetOfSlot(Fd, slots, k) ==
    IF k <= 1 THEN 0
    ELSE OffsetOfSlot(Fd, slots, k - 1) + Len(DataToVec(Fd, slots[k - 1]))

\* vec holds the conversion of every slot, in declaration order, and nothing else.
SlotsInOrder(Fd, slots, vec) ==
    /\ Len(vec) = OffsetOfSlot(Fd, slots, Len(slots) + 1)
    /\ \A k \in DOMAIN slots :
          SubSeq(vec, OffsetOfSlot(Fd, slots, k) + 1, OffsetOfSlot(Fd, slots, k + 1))
              = DataToVec(Fd, slots[k])

\* The instance variables a slot allocates on its own as public input.
InstanceOfSlot(Fd, slot) == AllocData(Fd, NewCs, slot, "Input").instance

\* C24: the conversion of a combined locking or unlocking aggregate is the
\* concatenation of the conversions of its slots in declaration order, its length
\* their sum; the combined variable allocates the slots in that order, each in
\* the mode the aggregate is allocated in.
C24_CombinedDataInOrder ==
    /\ (IsSome(public_input) /\ circuit.locking_data.kind = "combined"
            /\ circuit.unlocking_data.kind = "combined") =>
          \E n \in {Len(DataToVec(F, circuit.locking_data))} :
              /\ SlotsInOrder(F, circuit.locking_data.slots,
                              SubSeq(public_input.some, 1, n))
              /\ SlotsInOrder(F, circuit.unlocking_data.slots,
                              SubSeq(public_input.some, n + 2, Len(public_input.some)))
    /\ (pc = "integrity_tag" /\ circuit.locking_data.kind = "combined") =>
          /\ cs.instance
                = Concat([k \in DOMAIN circuit.locking_data.slots |->
                             InstanceOfSlot(F, circuit.locking_data.slots[k])])
          /\ cs.num_instance_variables = Len(cs.instance)
          /\ cs.num_witness_variables = 0

\* public_input() of a circuit whose aggregates have two non-empty slots each.
C24_Witness ==
    /\ IsSome(public_input)
    /\ circuit.locking_data = CombinedData(<<FieldArray(<<5, 6>>), ByteArray(<<7>>)>>)
    /\ circuit.unlocking_data = CombinedData(<<ByteArray(<<8, 9>>), FieldArray(<<3>>)>>)
    /\ Len(public_input.some) = 7

(***************************************************************************)
(* test_predicate of fixed_sub_lock_script.rs: FixedSubLockScript on every  *)
(* range, over transactions whose first locking script has ScriptLen bytes *)
(* and whose second has one byte less.                                     *)
(***************************************************************************)
ScriptLen == 3

SubConfig ==
    [N_INPUTS |-> 0, N_OUTPUTS |-> 2, LEN_UNLOCK_SCRIPTS |-> <<>>,
     LEN_LOCK_SCRIPTS |-> <<ScriptLen, ScriptLen - 1>>]

\* The well-typed transactions of SubConfig, over the bytes 0 and 1.
SubTxs ==
    {TestTx(a, b) : a \in [1..ScriptLen -> {0, 1}], b \in {[k \in 1..(ScriptLen - 1) |-> v] : v \in {0, 1}}}

\* FixedSubLockScript::new(lock_script, index, start, end), for every range up
\* to one past the script and every fixed script of up to two bytes.
SubPredicates ==
    {FixedSubLockScript("fixed_sub_lock_script", ls, index, start, end) :
        ls \in UNION {[1..n -> {0, 1}] : n \in 0..2},
        index \in {0, 1}, start \in 0..(ScriptLen + 1), end \in 0..(ScriptLen + 1)}

InitSubLock ==
    /\ F = Fr
    /\ P = SubConfig
    /\ circuit \in
          {RefTxCircuit([predicate |-> q, locking_data |-> BitcoinUnit,
                         unlocking_data |-> BitcoinUnit],
                        None, Some(x),
                        [prev_lock_script |-> None, prev_amount |-> None], None) :
              q \in SubPredicates, x \in SubTxs}
    /\ Fresh

SpecSubLock == InitSubLock /\ [][NextPredicates]_vars

\* The bytes [start, end) of the locking script of the output the predicate names.
CheckedBytes(pred, tx) ==
    SubSeq(tx.outputs[pred.index + 1].lock_script, pred.start + 1, pred.end)

\* C25: enforced, FixedSubLockScript(lock_script, index, start, end) leaves the
\* system satisfied iff bytes [start, end) of the locking script of output index
\* equal lock_script; the bytes outside the range and the other outputs do not
\* change the result.
C25_SubScriptPredicate ==
    (pc = "test_done" /\ result # None) =>
        /\ cs.satisfied <=>
              CheckedBytes(circuit.predicate, circuit.spending_data.some)
                  = circuit.predicate.lock_script
        /\ \A x \in SubTxs :
              CheckedBytes(circuit.predicate, x)
                    = CheckedBytes(circuit.predicate, circuit.spending_data.some) =>
                 TestRun(circuit.predicate, x).cs.satisfied = cs.satisfied

\* The fixed script is found at [0, 2) and the range [1, 3) holds other bytes:
\* the predicate on the shifted range is enforced and the system is unsatisfied.
C25_Witness ==
    /\ pc = "test_done" /\ result # None
    /\ circuit.predicate.start = 1 /\ circuit.predicate.end = 3
    /\ Len(circuit.predicate.lock_script) = 2
    /\ SubSeq(circuit.spending_data.some.outputs[circuit.predicate.index + 1].lock_script,
              1, 2) = circuit.predicate.lock_script
    /\ ~cs.satisfied

\* The range of the predicate does not fit the script it names or the fixed script.
BadRange(pred, tx) ==
    \/ pred.start > pred.end
    \/ pred.end > Len(tx.outputs[pred.index + 1].lock_script)
    \/ pred.end - pred.start # Len(pred.lock_script)

\* C30: every FixedSubLockScript with start > end, with end past the locking
\* script of output index, or with end - start different from the length of the
\* fixed script is rejected by the predicate's own validation checks, before the
\* script is sliced or compared.
C30_RangeValidated ==
    (/\ pc \in {"test_generated", "test_done"}
     /\ BadRange(circuit.predicate, circuit.spending_data.some)) =>
        /\ status = "panic" /\ cause = "validation"
        /\ result = None

\* The statements of RefTxCircuit::generate_constraints, in the order of the code.
RefTxSteps ==
    <<"locking_data", "integrity_tag", "unlocking_data", "witness", "spending_data",
      "prev_lock_script", "prev_amount", "sighash_cache", "verify", "enforce">>

StepsOf(l) == [k \in 1..Len(l) |-> l[k].step]

\* C26: RefTx synthesis is one pass in a fixed order: the eight allocations, then
\* the integrity gadget's verify once, then the predicate's enforce_constraints
\* once; verify and the predicate both work on the transaction variable that was
\* allocated, and the predicate's Boolean is asserted true, not only generated.
C26_SinglePassFixedOrder ==
    pc # "ti_done" =>
        /\ Len(log) <= Len(RefTxSteps)
        /\ StepsOf(log) = SubSeq(RefTxSteps, 1, Len(log))
        /\ pc = "done" =>
              /\ StepsOf(log) = RefTxSteps
              /\ alloc.spending_data.some = UnwrapOr(circuit.spending_data, default_tx(P))
              /\ digest.some
                    = commit(P, alloc.spending_data.some, alloc.prev_lock_script.some,
                             alloc.prev_amount.some,
                             UnwrapOr(circuit.sighash_cache, EmptyCache)).tag
              /\ cs = GeneratedCs(F, P, circuit)
              /\ \A g \in {generate_constraints(circuit.predicate, NewCs,
                                                alloc.spending_data.some, <<>>)} :
                    /\ result.some.val = g.bool.val
                    /\ pred_log = g.log
                    /\ cs.satisfied => g.bool.val

\* The whole pass has run on a matching tag and a predicate that is false on the
\* allocated transaction: the assertion leaves the system unsatisfied.
C26_Witness ==
    /\ pc = "done"
    /\ StepsOf(log) = RefTxSteps
    /\ circuit.spending_data # None
    /\ digest = circuit.integrity_tag
    /\ ~result.some.const /\ ~result.some.val
    /\ ~cs.satisfied

(***************************************************************************)
(* TransactionIntegrityGadget::verify on a tag variable built by its       *)
(* caller: `inner` is a public field, so the variable may hold any number  *)
(* of elements and any element of the field.                               *)
(***************************************************************************)
\* The element with the byte just above the chunk size set.
AboveChunk(field, fp) == [fp EXCEPT ![get_chunk_size(field) + 1] = 1]

\* The chunk vectors tried for a tag: its chunks, every shorter prefix of them, one
\* element more, and its chunks with one element changed above the chunk size.
TagVarsOf(field, tag) ==
    LET base == to_fp_chunks(field, tag)
    IN  {SubSeq(base, 1, k) : k \in 0..Len(base)}
        \cup {Append(base, base[1])}
        \cup {x \in {[base EXCEPT ![j] = AboveChunk(field, base[j])] : j \in 1..Len(base)} :
                 \A j \in 1..Len(x) : ~GeqLE(x[j], field.MODULUS)}

\* The variables of the call, all public input, the tag's elements first.
TagVarInputs(field, c, inner) ==
    AllocBytes(AllocBytes(AllocTx(AllocFps(NewCs, inner, "Input"),
                                  c.spending_data.some, "Input"),
                          c.prev_lock_script.some, "Input"),
               U64Le(c.prev_amount.some), "Input")

VerifyTagVar ==
    /\ pc = "init"
    /\ IsSome(circuit.integrity_tag) /\ IsSome(circuit.spending_data)
    /\ IsSome(circuit.prev_lock_script) /\ IsSome(circuit.prev_amount)
    /\ \E inner \in TagVarsOf(F, circuit.integrity_tag.some) :
       \E r \in {verify(F, P, TagVarInputs(F, circuit, inner), circuit.spending_data.some,
                         circuit.prev_lock_script.some, circuit.prev_amount.some,
                         EmptyCache, [inner |-> inner])} :
          /\ cs' = r.cs
          /\ alloc' = [integrity_tag |-> Some([inner |-> inner]),
                       spending_data |-> circuit.spending_data,
                       prev_lock_script |-> circuit.prev_lock_script,
                       prev_amount |-> circuit.prev_amount,
                       sighash_cache |-> Some(r.cache)]
          /\ digest' = IF r.status = "ok" THEN Some(r.digest) ELSE None
          /\ log' = <<[step |-> "verify", compared |-> r.compared]>>
          /\ status' = r.status
          /\ cause' = r.cause
          /\ pc' = "tag_done"
    /\ UNCHANGED <<F, P, circuit, pred_log, public_input, result>>

InitTagVars ==
    /\ F \in Fields
    /\ P = Config
    /\ circuit \in
          {RefTxCircuit(b, Some(t), Some(TxA),
                        [prev_lock_script |-> Some(PrevLockScript),
                         prev_amount |-> Some(260000)], None) :
              b \in {q \in PredicateSet : q.predicate = LockA}, t \in TagSet}
    /\ Fresh

NextTagVars == VerifyTagVar

SpecTagVars == InitTagVars /\ [][NextTagVars]_vars

\* C27: for every tag variable handed to verify, whatever the length of its chunk
\* vector, the conjunction asserted true holds exactly 32 / chunk_size chunk
\* equalities, covering each of the 32 digest bytes once: a call of verify that
\* returns with a satisfied system has compared all 32 bytes, never fewer.
C27_WholeDigestCompared ==
    (pc = "tag_done" /\ status = "ok" /\ cs.satisfied) => log[1].compared = TagLen

\* C28: the public tag elements are determined by the digest: with the chunk
\* vector at its full length, verify is satisfied only when each element is the
\* integer of its digest chunk (below 2^(8 * chunk_size)); an element differing
\* from it only in bytes above the chunk size is rejected.
C28_PublicElementsUnique ==
    (/\ pc = "tag_done" /\ status = "ok" /\ cs.satisfied
     /\ Len(alloc.integrity_tag.some.inner) = TagLen \div get_chunk_size(F)) =>
        alloc.integrity_tag.some.inner = to_fp_chunks(F, digest.some)

\* C29: chunking a tag loses nothing, for every 32-byte tag and every modulus
\* bit-size: to_fp_chunks gives 32 / chunk_size elements, no chunk is reduced
\* modulo the field (the element's canonical bytes are the chunk's bytes, zeros
\* above), and the first chunk_size bytes of the elements, concatenated in order,
\* are the 32 bytes of the tag.
C29_ChunkingRoundTrip ==
    pc = "chunks" =>
        /\ Len(public_input.some) = TagLen \div result.some
        /\ \A k \in 1..Len(public_input.some) :
              ToBytesLe(F, public_input.some[k])
                 = SubSeq(circuit.integrity_tag, (k - 1) * result.some + 1, k * result.some)
                      \o Zeros(NumModulusBytes(F) - result.some)
        /\ Concat([k \in 1..Len(public_input.some) |->
                      SubSeq(ToBytesLe(F, public_input.some[k]), 1, result.some)])
              = circuit.integrity_tag

=============================================================================
